---- MODULE Spec2Model ----
(***************************************************************************)
(* Model of the offline bus-offer analyzer (src/analyzer.py) together with *)
(* the step that produces its input file (results_scraper.save_to_csv).    *)
(*                                                                         *)
(* Numbers.  A pandas/Python float is modelled as an exact rational       *)
(* <<n, d>> with d > 0 in lowest terms.  Two further values share the      *)
(* same shape so that every cell of a column can be compared:              *)
(*     NaN  == <<0, 0>>    (float('nan'), a float64 missing value)         *)
(*     None == <<0, -1>>   (Python None in an object column)               *)
(* Text.  A CSV cell is a sequence of one-character strings; the empty     *)
(* cell <<>> is what pandas.read_csv turns into a missing value.           *)
(***************************************************************************)
EXTENDS Integers, Sequences, FiniteSets, TLC

VARIABLES pc, rows, fs, csv_path, weights_arg, outcome, weights, df, norm,
          df_sorted, best,
          \* a direct call of one helper function: its name and arguments,
          \* and what it returned
          call, ret,
          \* invocations of pick_best_bus taken statement by statement: the
          \* local variables of each invocation, the dict objects they refer
          \* to, the files by path, and the order the library's sort has
          \* given to each score column it has sorted
          frame, heap, disk, argsort,
          \* one call of pick_bootstrap_date: the browser page it drives (the
          \* date widget and the journey-date field) and the call's own
          \* position, arguments and result
          page, pick,
          \* one run of main from the search click on: the site as the run
          \* meets it (its search buttons, the clicks and reloads it has
          \* received) and the run's own position and locals
          site, run

vars == <<pc, rows, fs, csv_path, weights_arg, outcome, weights, df, norm,
          df_sorted, best, call, ret, frame, heap, disk, argsort, page, pick,
          site, run>>

\* the variables one call of pick_best_bus works on
rankerVars == <<rows, fs, csv_path, weights_arg, outcome, weights, df, norm,
                df_sorted, best>>

\* the variables a run of save_to_csv and pick_best_bus leaves alone
outside == <<call, ret, frame, heap, disk, argsort, page, pick, site, run>>

\* the variables the statement-by-statement invocations work on
callerVars == <<frame, heap, disk, argsort>>

\* the variables a call of pick_bootstrap_date works on
pickerVars == <<page, pick>>

\* the variables a run of main works on
mainVars == <<site, run>>

----------------------------------------------------------------------------
(* Exact arithmetic standing for float arithmetic.                         *)

NaN == <<0, 0>>
None == <<0, -1>>

IsNaN(x) == x[2] = 0
IsNone(x) == x[2] = -1
\* pd.isna / Series.isnull: None and NaN are both missing
IsNull(x) == x[2] <= 0

Abs(n) == IF n < 0 THEN -n ELSE n

RECURSIVE GCD(_, _)
GCD(a, b) == IF b = 0 THEN a ELSE GCD(b, a % b)

LCM(a, b) == (a \div GCD(a, b)) * b

Rat(n, d) ==
    LET g == GCD(Abs(n), Abs(d))
        s == IF d < 0 THEN -1 ELSE 1
    IN  <<(s * n) \div g, (s * d) \div g>>

Int2F(n) == <<n, 1>>

\* IEEE arithmetic: any NaN operand gives NaN
FAdd(x, y) ==
    IF IsNull(x) \/ IsNull(y) THEN NaN
    ELSE LET l == LCM(x[2], y[2])
         IN  Rat(x[1] * (l \div x[2]) + y[1] * (l \div y[2]), l)

FNeg(x) == IF IsNull(x) THEN NaN ELSE <<-x[1], x[2]>>

FSub(x, y) == FAdd(x, FNeg(y))

FMul(x, y) ==
    IF IsNull(x) \/ IsNull(y) THEN NaN
    ELSE LET g1 == GCD(Abs(x[1]), y[2])
             g2 == GCD(Abs(y[1]), x[2])
         IN  Rat((x[1] \div g1) * (y[1] \div g2), (x[2] \div g2) * (y[2] \div g1))

\* only used with a non-zero divisor (the code guards mx == mn)
FDiv(x, y) ==
    IF IsNull(x) \/ IsNull(y) THEN NaN
    ELSE FMul(x, Rat(y[2], y[1]))

\* comparisons with NaN are False, as in IEEE / Python
FLess(x, y) ==
    IF IsNull(x) \/ IsNull(y) THEN FALSE
    ELSE LET l == LCM(x[2], y[2])
         IN  x[1] * (l \div x[2]) < y[1] * (l \div y[2])

FLeq(x, y) ==
    IF IsNull(x) \/ IsNull(y) THEN FALSE
    ELSE ~FLess(y, x)

FAbs(x) == IF IsNull(x) THEN NaN ELSE <<Abs(x[1]), x[2]>>

\* Python builtins max(a, b) / min(a, b): keep a unless b compares better
PyMax(a, b) == IF FLess(a, b) THEN b ELSE a
PyMin(a, b) == IF FLess(b, a) THEN b ELSE a

----------------------------------------------------------------------------
(* Text helpers: the pieces of Python's re / str the parsers rely on.      *)

Digits == {"0", "1", "2", "3", "4", "5", "6", "7", "8", "9"}

DigitVal(c) ==
    CASE c = "0" -> 0 [] c = "1" -> 1 [] c = "2" -> 2 [] c = "3" -> 3
      [] c = "4" -> 4 [] c = "5" -> 5 [] c = "6" -> 6 [] c = "7" -> 7
      [] c = "8" -> 8 [] c = "9" -> 9

\* character at position i, "" past either end
At(s, i) == IF i >= 1 /\ i <= Len(s) THEN s[i] ELSE ""

IsDigit(c) == c \in Digits
IsSpace(c) == c = " "

RECURSIVE SkipWs(_, _)
\* first position >= i that holds no whitespace (\s*)
SkipWs(s, i) == IF IsSpace(At(s, i)) THEN SkipWs(s, i + 1) ELSE i

RECURSIVE DigitsEnd(_, _)
\* first position >= i that holds no digit (greedy \d*)
DigitsEnd(s, i) == IF IsDigit(At(s, i)) THEN DigitsEnd(s, i + 1) ELSE i

RECURSIVE FirstDigit(_, _)
\* first position >= i that holds a digit, 0 if there is none
FirstDigit(s, i) ==
    IF i > Len(s) THEN 0
    ELSE IF IsDigit(s[i]) THEN i ELSE FirstDigit(s, i + 1)

RECURSIVE NatOf(_, _, _)
\* int() of the digits s[i..j-1]
NatOf(s, i, j) ==
    IF j <= i THEN 0 ELSE NatOf(s, i, j - 1) * 10 + DigitVal(s[j - 1])

RECURSIVE Pow10(_)
Pow10(k) == IF k = 0 THEN 1 ELSE 10 * Pow10(k - 1)

\* str.upper() / str.lower() on the letters the parsers look at
Upper(c) ==
    CASE c = "a" -> "A" [] c = "p" -> "P" [] c = "m" -> "M" [] c = "h" -> "H"
      [] OTHER -> c

Lower(c) ==
    CASE c = "A" -> "a" [] c = "P" -> "p" [] c = "M" -> "m" [] c = "H" -> "h"
      [] OTHER -> c

UpperText(s) == [i \in 1..Len(s) |-> Upper(s[i])]

LowerText(s) == [i \in 1..Len(s) |-> Lower(s[i])]

RECURSIVE Remove(_, _)
\* str.replace(c, '')
Remove(s, c) ==
    IF s = <<>> THEN <<>>
    ELSE IF Head(s) = c THEN Remove(Tail(s), c)
    ELSE <<Head(s)>> \o Remove(Tail(s), c)

RECURSIVE LStrip(_)
LStrip(s) == IF s # <<>> /\ IsSpace(Head(s)) THEN LStrip(Tail(s)) ELSE s

RECURSIVE RStrip(_)
RStrip(s) ==
    IF s # <<>> /\ IsSpace(s[Len(s)]) THEN RStrip(SubSeq(s, 1, Len(s) - 1)) ELSE s

\* str.strip()
Strip(s) == RStrip(LStrip(s))

----------------------------------------------------------------------------
(* Field parsers, src/analyzer.py lines 19-96.  A cell is a text; the      *)
(* empty text stands for the missing value read_csv produces.              *)

RECURSIVE IntRunEnd(_, _)
\* end of the match of [\d,]* from position i
IntRunEnd(s, i) ==
    IF IsDigit(At(s, i)) \/ At(s, i) = "," THEN IntRunEnd(s, i + 1) ELSE i

_to_int(x) ==
    IF x = <<>> THEN None
    ELSE LET i == FirstDigit(x, 1)
         IN  IF i = 0 THEN None
             ELSE LET j == IntRunEnd(x, i)
                      d == Remove(SubSeq(x, i, j - 1), ",")
                  IN  Int2F(NatOf(d, 1, Len(d) + 1))

_to_float_rating(x) ==
    IF x = <<>> THEN None
    ELSE LET i == FirstDigit(x, 1)
         IN  IF i = 0 THEN None
             ELSE LET j == DigitsEnd(x, i)
                      k == DigitsEnd(x, j + 1)
                  IN  IF At(x, j) = "." /\ k > j + 1
                      THEN FAdd(Int2F(NatOf(x, i, j)),
                                Rat(NatOf(x, j + 1, k), Pow10(k - j - 1)))
                      ELSE Int2F(NatOf(x, i, j))

\* faulty variant of Clock: PM adds 12 hours to hour 12 as well
ClockPmAlwaysAdds(hh, mm, ampm) ==
    LET h1 == IF ampm = "PM" THEN hh + 12 ELSE hh
        h2 == IF ampm = "AM" /\ h1 = 12 THEN 0 ELSE h1
    IN  Int2F(h2 * 60 + mm)

\* the 12-hour rules shared by the first two patterns
Clock(hh, mm, ampm) ==
    LET h1 == IF ampm = "PM" /\ hh # 12 THEN hh + 12 ELSE hh
        h2 == IF ampm = "AM" /\ h1 = 12 THEN 0 ELSE h1
    IN  Int2F(h2 * 60 + mm)

\* "AM" / "PM" at position i, "" otherwise
AmPmAt(s, i) ==
    IF At(s, i + 1) = "M" /\ At(s, i) \in {"A", "P"}
    THEN IF At(s, i) = "A" THEN "AM" ELSE "PM"
    ELSE ""

_time_to_minutes(t) ==
    IF t = <<>> THEN None
    ELSE
    LET s0 == Strip(t)
        s  == Remove(UpperText(s0), ".")
        n  == Len(s)
        a  == SkipWs(s, 1)
        b  == DigitsEnd(s, a)
        \* ^\s*(\d{1,2})\s*[:\-]\s*(\d{2})\s*(AM|PM)?\s*$
        c  == SkipWs(s, b)
        e  == SkipWs(s, c + 1)
        f  == SkipWs(s, e + 2)
        ap == AmPmAt(s, f)
        g  == IF ap = "" THEN f ELSE SkipWs(s, f + 2)
        m1 == /\ b - a \in {1, 2}
              /\ At(s, c) \in {":", "-"}
              /\ IsDigit(At(s, e)) /\ IsDigit(At(s, e + 1))
              /\ g = n + 1
        \* ^\s*(\d{1,2})\s*(AM|PM)\s*$
        ap2 == AmPmAt(s, c)
        m2 == /\ b - a \in {1, 2}
              /\ ap2 # ""
              /\ SkipWs(s, c + 2) = n + 1
        \* ^\s*(\d{2})(\d{2})\s*$
        m3 == /\ b - a = 4
              /\ SkipWs(s, b) = n + 1
    IN  IF s0 = <<>> THEN None
        ELSE IF m1 THEN Clock(NatOf(s, a, b), NatOf(s, e, e + 2), ap)
        ELSE IF m2 THEN Clock(NatOf(s, a, b), 0, ap2)
        ELSE IF m3 THEN Int2F(NatOf(s, a, a + 2) * 60 + NatOf(s, a + 2, a + 4))
        ELSE None

RECURSIVE UnitSearch(_, _, _)
\* re.search(r'(\d+)\s*<u>', s) from position i: <<start, end>> of the
\* digit group of the leftmost match, <<0, 0>> when nothing matches
UnitSearch(s, u, i) ==
    LET a == FirstDigit(s, i)
        b == DigitsEnd(s, a)
    IN  IF a = 0 THEN <<0, 0>>
        ELSE IF At(s, SkipWs(s, b)) = u THEN <<a, b>>
        ELSE UnitSearch(s, u, b)

\* faulty variant of _duration_to_minutes: a bare number is always hours
DurationBareAlwaysHours(d) ==
    IF d = <<>> THEN None
    ELSE
    LET s  == LowerText(Strip(d))
        mh == UnitSearch(s, "h", 1)
        mm == UnitSearch(s, "m", 1)
        h  == IF mh[1] # 0 THEN NatOf(s, mh[1], mh[2]) ELSE 0
        m  == IF mm[1] # 0 THEN NatOf(s, mm[1], mm[2]) ELSE 0
        b  == DigitsEnd(s, 1)
        m2 == /\ b - 1 \in {1, 2}
              /\ At(s, b) \in {":", "-"}
              /\ IsDigit(At(s, b + 1)) /\ IsDigit(At(s, b + 2))
              /\ Len(s) = b + 2
        a3 == FirstDigit(s, 1)
        val == NatOf(s, a3, DigitsEnd(s, a3))
    IN  IF s = <<>> THEN None
        ELSE IF mh[1] # 0 \/ mm[1] # 0 THEN Int2F(h * 60 + m)
        ELSE IF m2 THEN Int2F(NatOf(s, 1, b) * 60 + NatOf(s, b + 1, b + 3))
        ELSE IF a3 # 0 THEN Int2F(val * 60)
        ELSE None

_duration_to_minutes(d) ==
    IF d = <<>> THEN None
    ELSE
    LET s  == LowerText(Strip(d))
        mh == UnitSearch(s, "h", 1)
        mm == UnitSearch(s, "m", 1)
        h  == IF mh[1] # 0 THEN NatOf(s, mh[1], mh[2]) ELSE 0
        m  == IF mm[1] # 0 THEN NatOf(s, mm[1], mm[2]) ELSE 0
        \* ^(\d{1,2})[:\-](\d{2})$
        b  == DigitsEnd(s, 1)
        m2 == /\ b - 1 \in {1, 2}
              /\ At(s, b) \in {":", "-"}
              /\ IsDigit(At(s, b + 1)) /\ IsDigit(At(s, b + 2))
              /\ Len(s) = b + 2
        a3 == FirstDigit(s, 1)
        val == NatOf(s, a3, DigitsEnd(s, a3))
    IN  IF s = <<>> THEN None
        ELSE IF mh[1] # 0 \/ mm[1] # 0 THEN Int2F(h * 60 + m)
        ELSE IF m2 THEN Int2F(NatOf(s, 1, b) * 60 + NatOf(s, b + 1, b + 3))
        ELSE IF a3 # 0 THEN (IF val <= 24 THEN Int2F(val * 60) ELSE Int2F(val))
        ELSE None

----------------------------------------------------------------------------
(* Series helpers: the pandas operations pick_best_bus uses on a column.   *)
(* A column is a sequence of numbers, NaN or None, one per row.            *)

Range(f) == {f[i] : i \in DOMAIN f}

AllNull(col) == \A i \in DOMAIN col : IsNull(col[i])

\* Series.apply(parser): pandas keeps an all-None result as an object
\* column of None and turns None into NaN as soon as one number is present
ApplyResult(col) ==
    IF AllNull(col) THEN col
    ELSE [i \in DOMAIN col |-> IF IsNull(col[i]) THEN NaN ELSE col[i]]

\* Series.max(skipna=True) / Series.min(skipna=True); NaN when nothing is left
SeriesMax(col) ==
    IF AllNull(col) THEN NaN
    ELSE CHOOSE m \in Range(col) :
            /\ ~IsNull(m)
            /\ \A i \in DOMAIN col : IsNull(col[i]) \/ FLeq(col[i], m)

SeriesMin(col) ==
    IF AllNull(col) THEN NaN
    ELSE CHOOSE m \in Range(col) :
            /\ ~IsNull(m)
            /\ \A i \in DOMAIN col : IsNull(col[i]) \/ FLeq(m, col[i])

\* Series.fillna(v)
FillNa(col, v) == [i \in DOMAIN col |-> IF IsNull(col[i]) THEN v ELSE col[i]]

\* Series.clip(0.0, 1.0): NaN stays NaN
Clip01(x) ==
    IF IsNull(x) THEN NaN
    ELSE IF FLess(x, Int2F(0)) THEN Int2F(0)
    ELSE IF FLess(Int2F(1), x) THEN Int2F(1)
    ELSE x

Half == Rat(1, 2)

\* line 106: the divisors the division (s2 - mn) / (mx - mn) is evaluated
\* with, none when the function returned on line 102 or 105
NormalizeDivisors(s) ==
    LET s2 == [i \in DOMAIN s |-> IF IsNull(s[i]) THEN NaN ELSE s[i]]
    IN  IF AllNull(s2) \/ SeriesMax(s2) = SeriesMin(s2) THEN {}
        ELSE {FSub(SeriesMax(s2), SeriesMin(s2))}

\* faulty variant of _normalize_series: a degenerate column scores 0
\* (1 when inverted), as the division would give with a divisor of 1
NormalizeDegenerateZero(s, invert) ==
    LET s2 == [i \in DOMAIN s |-> IF IsNull(s[i]) THEN NaN ELSE s[i]]
        mn == SeriesMin(s2)
        mx == SeriesMax(s2)
        nrm == [i \in DOMAIN s2 |-> FDiv(FSub(s2[i], mn), FSub(mx, mn))]
        inv == IF invert THEN [i \in DOMAIN s2 |-> FSub(Int2F(1), nrm[i])]
               ELSE nrm
        degenerate == IF invert THEN Int2F(1) ELSE Int2F(0)
    IN  IF AllNull(s2) THEN [i \in DOMAIN s2 |-> degenerate]
        ELSE IF mx = mn THEN [i \in DOMAIN s2 |-> degenerate]
        ELSE FillNa([i \in DOMAIN s2 |-> Clip01(inv[i])], Half)

\* src/analyzer.py lines 99-109
_normalize_series(s, invert) ==
    LET s2 == [i \in DOMAIN s |-> IF IsNull(s[i]) THEN NaN ELSE s[i]]
        mn == SeriesMin(s2)
        mx == SeriesMax(s2)
        nrm == [i \in DOMAIN s2 |-> FDiv(FSub(s2[i], mn), FSub(mx, mn))]
        inv == IF invert THEN [i \in DOMAIN s2 |-> FSub(Int2F(1), nrm[i])]
               ELSE nrm
    IN  IF AllNull(s2) THEN [i \in DOMAIN s2 |-> Half]
        ELSE IF mx = mn THEN [i \in DOMAIN s2 |-> Half]
        ELSE FillNa([i \in DOMAIN s2 |-> Clip01(inv[i])], Half)

----------------------------------------------------------------------------
(* Weights, src/analyzer.py lines 112-127.  A dict is a function from key  *)
(* strings to numbers; the weights argument is <<>> for None, <<d>> for a  *)
(* dict d.                                                                 *)

\* faulty variant of default_weights: the seats weight is 1.0
default_weights_seats1 ==
    [price         |-> Rat(3, 1),
     rating        |-> Rat(2, 1),
     window        |-> Rat(1, 1),
     seats         |-> Rat(1, 1),
     duration      |-> Rat(1, 1),
     boarding      |-> Rat(2, 10),
     dropping_pref |-> Rat(11, 10)]

default_weights ==
    [price         |-> Rat(3, 1),
     rating        |-> Rat(2, 1),
     window        |-> Rat(1, 1),
     seats         |-> Rat(6, 10),
     duration      |-> Rat(1, 1),
     boarding      |-> Rat(2, 10),
     dropping_pref |-> Rat(11, 10)]

\* faulty variant of MergeWeights: the defaults overwrite the overrides
MergeWeightsDefaultsWin(warg) ==
    IF warg = <<>> THEN default_weights
    ELSE LET w == warg[1]
         IN  [k \in DOMAIN default_weights \cup DOMAIN w |->
                 IF k \in DOMAIN default_weights THEN default_weights[k] ELSE w[k]]

\* merged = default_weights.copy(); merged.update(weights)
MergeWeights(warg) ==
    IF warg = <<>> THEN default_weights
    ELSE LET w == warg[1]
         IN  [k \in DOMAIN default_weights \cup DOMAIN w |->
                 IF k \in DOMAIN w THEN w[k] ELSE default_weights[k]]

\* dict.get(k, default)
Get(w, k, dflt) == IF k \in DOMAIN w THEN w[k] ELSE dflt

----------------------------------------------------------------------------
(* The CSV file and pandas.read_csv (src/analyzer.py line 129).            *)
(* A file is [exists, columns, data]: data is a sequence of rows, each a   *)
(* function from the file's columns to cell texts.  A zero-byte file has   *)
(* no columns and no rows.                                                 *)

ScoredColumns ==
    {"Price", "Rating", "Window Seats", "Seats Available", "Boarding Time",
     "Duration", "Dropping Time"}

NoFile == [exists |-> FALSE, columns |-> {}, data |-> <<>>]

IsIntText(t) == Len(t) >= 1 /\ \A i \in 1..Len(t) : IsDigit(t[i])

IsDecText(t) ==
    \E k \in 2..(Len(t) - 1) :
        /\ t[k] = "."
        /\ \A i \in 1..Len(t) : i # k => IsDigit(t[i])

RECURSIVE StripLeadingZeros(_)
StripLeadingZeros(d) ==
    IF Len(d) > 1 /\ Head(d) = "0" THEN StripLeadingZeros(Tail(d)) ELSE d

RECURSIVE StripTrailingZeros(_)
StripTrailingZeros(d) ==
    IF Len(d) > 1 /\ d[Len(d)] = "0"
    THEN StripTrailingZeros(SubSeq(d, 1, Len(d) - 1)) ELSE d

\* str(int(t))
StrOfInt(t) == StripLeadingZeros(t)

\* str(float(t)) for decimal or integer digits (no exponent form)
StrOfFloat(t) ==
    IF IsIntText(t) THEN StripLeadingZeros(t) \o <<".", "0">>
    ELSE LET k == CHOOSE j \in 1..Len(t) : t[j] = "."
         IN  StripLeadingZeros(SubSeq(t, 1, k - 1)) \o <<".">>
                 \o StripTrailingZeros(SubSeq(t, k + 1, Len(t)))

\* read_csv infers one dtype per column: a column whose non-empty cells are
\* all numerals is read as int64 (no empty cell, all integers) or float64,
\* and the parsers then see str() of the number, not the file's text
InferColumn(col) ==
    LET txt == [i \in DOMAIN col |-> Strip(col[i])]
        present == {i \in DOMAIN col : col[i] # <<>>}
        numeric == /\ present # {}
                   /\ \A i \in present : IsIntText(txt[i]) \/ IsDecText(txt[i])
        int64 == /\ present = DOMAIN col
                 /\ \A i \in present : IsIntText(txt[i])
    IN  IF ~numeric THEN col
        ELSE [i \in DOMAIN col |->
                 IF col[i] = <<>> THEN <<>>
                 ELSE IF int64 THEN StrOfInt(txt[i]) ELSE StrOfFloat(txt[i])]

\* the "FileNotFoundError" / "EmptyDataError" exceptions, or the table
ReadCsv(files, path) ==
    IF path = "" \/ ~files.exists THEN [raised |-> "FileNotFoundError", data |-> <<>>]
    ELSE IF files.columns = {} THEN [raised |-> "EmptyDataError", data |-> <<>>]
    ELSE LET n == Len(files.data)
             cols == [c \in files.columns |->
                         InferColumn([i \in 1..n |-> files.data[i][c]])]
         IN  [raised |-> "",
              data |-> [i \in 1..n |-> [c \in files.columns |-> cols[c][i]]]]

\* results_scraper.save_to_csv, lines 203-223: what is written, and the path
CsvName == "vrl_results.csv"

SaveFile(rs) ==
    IF rs = <<>> THEN NoFile
    ELSE [exists |-> TRUE, columns |-> DOMAIN rs[1], data |-> rs]

SavePath(rs) == IF rs = <<>> THEN "" ELSE CsvName

----------------------------------------------------------------------------
(* pick_best_bus, src/analyzer.py lines 111-230.                           *)

\* lines 135-138: a missing column becomes a column of None
EnsureColumns(t) ==
    [i \in DOMAIN t |->
        [c \in DOMAIN t[i] \cup ScoredColumns |->
            IF c \in DOMAIN t[i] THEN t[i][c] ELSE <<>>]]

\* df[c].apply(_to_int)
ParsedInts(t, c) == ApplyResult([i \in DOMAIN t |-> _to_int(t[i][c])])

\* df[c].apply(_to_float_rating)
ParsedRatings(t, c) == ApplyResult([i \in DOMAIN t |-> _to_float_rating(t[i][c])])

\* df[c].apply(_time_to_minutes)
ParsedTimes(t, c) == ApplyResult([i \in DOMAIN t |-> _time_to_minutes(t[i][c])])

\* df[c].apply(_duration_to_minutes)
ParsedDurations(t, c) ==
    ApplyResult([i \in DOMAIN t |-> _duration_to_minutes(t[i][c])])

\* lines 150-152
FillPrice(col) ==
    LET m == SeriesMax(col)
        max_price == IF IsNull(m) THEN Int2F(999999) ELSE m
    IN  FillNa(col, FMul(max_price, Rat(3, 2)))

\* faulty variant of FillRating: a missing rating gets the best one
FillRatingMax(col) ==
    IF AllNull(col) THEN FillNa(col, Int2F(0))
    ELSE FillNa(col, SeriesMax(col))

\* lines 154-157
FillRating(col) ==
    IF AllNull(col) THEN FillNa(col, Int2F(0))
    ELSE FillNa(col, SeriesMin(col))

\* faulty variant of FillCount: the fillna(0) is forgotten
FillCountForgotten(col) == col

\* lines 159-160
FillCount(col) == FillNa(col, Int2F(0))

\* lines 162-164
FillDuration(col) ==
    LET m == SeriesMax(col)
        max_dur == IF IsNull(m) THEN Int2F(9999) ELSE m
    IN  FillNa(col, FMul(max_dur, Rat(3, 2)))

\* lines 166-168
FillBoarding(col) ==
    LET m == SeriesMax(col)
        max_board == IF IsNull(m) THEN Int2F(24 * 60) ELSE m
    IN  FillNa(col, FAdd(max_board, Int2F(60)))

IDEAL_START == Int2F(6 * 60 + 30)
IDEAL_END == Int2F(9 * 60)

\* faulty variant of InWindow: the end of the window is excluded
InWindowEndExcluded(x) == ~IsNone(x) /\ FLeq(IDEAL_START, x) /\ FLess(x, IDEAL_END)

\* the lambda of line 175
InWindow(x) == ~IsNone(x) /\ FLeq(IDEAL_START, x) /\ FLeq(x, IDEAL_END)

\* line 175
has_in_window(col) == \E i \in DOMAIN col : InWindow(col[i])

\* lines 179-187
drop_score_val(x) ==
    IF IsNone(x) THEN Int2F(0)
    ELSE IF FLeq(IDEAL_START, x) /\ FLeq(x, IDEAL_END) THEN Int2F(1)
    ELSE LET dist == PyMin(FAbs(FSub(x, IDEAL_START)), FAbs(FSub(x, IDEAL_END)))
         IN  PyMax(Int2F(0), FSub(Int2F(1), FDiv(dist, Int2F(720))))

\* faulty variant of EarliestWins: the normalization is not inverted
EarliestWinsNotInverted(col) ==
    LET m == SeriesMax(col)
        max_d == IF IsNull(m) THEN Int2F(24 * 60) ELSE m
        drop_vals == FillNa(col, FAdd(max_d, Int2F(120)))
    IN  _normalize_series(drop_vals, FALSE)

\* lines 193-198
EarliestWins(col) ==
    LET m == SeriesMax(col)
        max_d == IF IsNull(m) THEN Int2F(24 * 60) ELSE m
        drop_vals == FillNa(col, FAdd(max_d, Int2F(120)))
    IN  _normalize_series(drop_vals, TRUE)

\* lines 177-198
DropPref(col) ==
    IF has_in_window(col) THEN [i \in DOMAIN col |-> drop_score_val(col[i])]
    ELSE EarliestWins(col)

\* lines 140-198: the derived columns
Derived(t) ==
    LET drop == ParsedTimes(t, "Dropping Time")
    IN  [_price      |-> FillPrice(ParsedInts(t, "Price")),
         _rating     |-> FillRating(ParsedRatings(t, "Rating")),
         _window     |-> FillCount(ParsedInts(t, "Window Seats")),
         _seats      |-> FillCount(ParsedInts(t, "Seats Available")),
         _board_mins |-> FillBoarding(ParsedTimes(t, "Boarding Time")),
         _dur_mins   |-> FillDuration(ParsedDurations(t, "Duration")),
         _drop_mins  |-> drop,
         has_in_window |-> has_in_window(drop),
         _drop_pref  |-> DropPref(drop)]

\* faulty variant of Normalized: the dropping preference is inverted
NormalizedDropInverted(d) ==
    [price_norm     |-> _normalize_series(d._price, TRUE),
     rating_norm    |-> _normalize_series(d._rating, FALSE),
     window_norm    |-> _normalize_series(d._window, FALSE),
     seats_norm     |-> _normalize_series(d._seats, FALSE),
     dur_norm       |-> _normalize_series(d._dur_mins, TRUE),
     board_norm     |-> _normalize_series(d._board_mins, TRUE),
     drop_pref_norm |-> _normalize_series(d._drop_pref, TRUE)]

\* faulty variant of Normalized: the price is not inverted
NormalizedPriceNotInverted(d) ==
    [price_norm     |-> _normalize_series(d._price, FALSE),
     rating_norm    |-> _normalize_series(d._rating, FALSE),
     window_norm    |-> _normalize_series(d._window, FALSE),
     seats_norm     |-> _normalize_series(d._seats, FALSE),
     dur_norm       |-> _normalize_series(d._dur_mins, TRUE),
     board_norm     |-> _normalize_series(d._board_mins, TRUE),
     drop_pref_norm |-> _normalize_series(d._drop_pref, FALSE)]

\* lines 201-207
Normalized(d) ==
    [price_norm     |-> _normalize_series(d._price, TRUE),
     rating_norm    |-> _normalize_series(d._rating, FALSE),
     window_norm    |-> _normalize_series(d._window, FALSE),
     seats_norm     |-> _normalize_series(d._seats, FALSE),
     dur_norm       |-> _normalize_series(d._dur_mins, TRUE),
     board_norm     |-> _normalize_series(d._board_mins, TRUE),
     drop_pref_norm |-> _normalize_series(d._drop_pref, FALSE)]

\* faulty variant of Score: the price term left out of the sum
ScoreWithoutPrice(w, nm) ==
    [i \in DOMAIN nm.price_norm |->
        FAdd(FAdd(FAdd(FAdd(FAdd(
            FMul(Get(w, "rating", Int2F(1)), nm.rating_norm[i]),
            FMul(Get(w, "window", Int2F(1)), nm.window_norm[i])),
            FMul(Get(w, "seats", Int2F(1)), nm.seats_norm[i])),
            FMul(Get(w, "duration", Int2F(1)), nm.dur_norm[i])),
            FMul(Get(w, "boarding", Int2F(1)), nm.board_norm[i])),
            FMul(Get(w, "dropping_pref", Int2F(1)), nm.drop_pref_norm[i]))]

\* lines 210-218
Score(w, nm) ==
    [i \in DOMAIN nm.price_norm |->
        FAdd(FAdd(FAdd(FAdd(FAdd(FAdd(
            FMul(Get(w, "price", Int2F(1)), nm.price_norm[i]),
            FMul(Get(w, "rating", Int2F(1)), nm.rating_norm[i])),
            FMul(Get(w, "window", Int2F(1)), nm.window_norm[i])),
            FMul(Get(w, "seats", Int2F(1)), nm.seats_norm[i])),
            FMul(Get(w, "duration", Int2F(1)), nm.dur_norm[i])),
            FMul(Get(w, "boarding", Int2F(1)), nm.board_norm[i])),
            FMul(Get(w, "dropping_pref", Int2F(1)), nm.drop_pref_norm[i]))]

\* a must come before b in a descending sort that puts NaN last
Before(a, b) == (~IsNull(a) /\ IsNull(b)) \/ FLess(b, a)

\* faulty variant of SortValues: ascending order
SortValuesAscending(score) ==
    {p \in Permutations(DOMAIN score) :
        \A i, j \in DOMAIN score : i < j => ~Before(score[p[i]], score[p[j]])}

\* line 221: sort_values("_score", ascending=False) uses the default
\* kind='quicksort', which pandas documents as not stable: every order
\* that is descending in the score is a possible result
SortValues(score) ==
    {p \in Permutations(DOMAIN score) :
        \A i, j \in DOMAIN score : i < j => ~Before(score[p[j]], score[p[i]])}

----------------------------------------------------------------------------
(* State machine.  rows: what the scraper collected; fs: the CSV file;     *)
(* csv_path: the path handed to pick_best_bus; weights_arg: its weights    *)
(* argument.  The remaining variables hold what one call of pick_best_bus  *)
(* computed: the merged weights, the frame with its derived columns, the   *)
(* normalized columns, the sorted order (original row numbers, best        *)
(* first), the number of the returned row and how the call ended.          *)

\* save_to_csv(rows, ...) followed by handing its return value on
SaveToCsv ==
    /\ pc = "scraped"
    /\ fs' = SaveFile(rows)
    /\ csv_path' = SavePath(rows)
    /\ pc' = "saved"
    /\ UNCHANGED <<rows, weights_arg, outcome, weights, df, norm, df_sorted, best>>
    /\ UNCHANGED outside

\* pick_best_bus(csv_path, weights)
PickBestBus ==
    /\ pc = "saved"
    /\ pc' = "done"
    /\ weights' = MergeWeights(weights_arg)
    /\ LET r == ReadCsv(fs, csv_path)
       IN  IF r.raised # ""
           THEN /\ outcome' = r.raised
                /\ UNCHANGED <<df, norm, df_sorted, best>>
           ELSE IF r.data = <<>>
           THEN /\ outcome' = "None"
                /\ UNCHANGED <<df, norm, df_sorted, best>>
           \* each intermediate result is computed once and then named
           ELSE \E t \in {EnsureColumns(r.data)} :
                \E d \in {Derived(t)} :
                \E nm \in {Normalized(d)} :
                \E sc \in {Score(weights', nm)} :
                    /\ df' = d @@ [raw |-> t, _score |-> sc]
                    /\ norm' = nm
                    /\ \E p \in SortValues(sc) :
                          /\ df_sorted' = p
                          /\ best' = p[1]
                    /\ outcome' = "row"
    /\ UNCHANGED <<rows, fs, csv_path, weights_arg>>
    /\ UNCHANGED outside

Next == SaveToCsv \/ PickBestBus

\* nothing but the ranker runs
OutsideIdle ==
    /\ call = <<>>
    /\ ret = <<>>
    /\ frame = <<>>
    /\ heap = <<>>
    /\ disk = <<>>
    /\ argsort = <<>>
    /\ page = <<>>
    /\ pick = <<>>
    /\ site = <<>>
    /\ run = <<>>

\* the state before anything ran: either the scraper's rows wait to be
\* saved, or a CSV file written elsewhere is handed to the analyzer
InitWith(tables, files, wargs) ==
    /\ \/ /\ pc = "scraped"
          /\ rows \in tables
          /\ fs = NoFile
          /\ csv_path = ""
       \/ /\ pc = "saved"
          /\ rows = <<>>
          /\ fs \in files
          /\ csv_path = CsvName
    /\ weights_arg \in wargs
    /\ outcome = "pending"
    /\ weights = <<>>
    /\ df = <<>>
    /\ norm = <<>>
    /\ df_sorted = <<>>
    /\ best = 0
    /\ OutsideIdle

\* no ranker call is under way
RankerIdle ==
    /\ rows = <<>>
    /\ fs = NoFile
    /\ csv_path = ""
    /\ weights_arg = <<>>
    /\ outcome = "pending"
    /\ weights = <<>>
    /\ df = <<>>
    /\ norm = <<>>
    /\ df_sorted = <<>>
    /\ best = 0

----------------------------------------------------------------------------
(* Direct calls of the helper functions: call holds the function's name    *)
(* and its arguments, ret what the call returned.                          *)

\* _normalize_series(s, invert)
CallNormalizeSeries ==
    /\ pc = "call"
    /\ call.fn = "_normalize_series"
    /\ ret' = _normalize_series(call.s, call.invert)
    /\ pc' = "returned"
    /\ UNCHANGED <<call, rankerVars, callerVars, pickerVars, mainVars>>

\* _time_to_minutes(t)
CallTimeToMinutes ==
    /\ pc = "call"
    /\ call.fn = "_time_to_minutes"
    /\ ret' = _time_to_minutes(call.t)
    /\ pc' = "returned"
    /\ UNCHANGED <<call, rankerVars, callerVars, pickerVars, mainVars>>

\* _duration_to_minutes(d)
CallDurationToMinutes ==
    /\ pc = "call"
    /\ call.fn = "_duration_to_minutes"
    /\ ret' = _duration_to_minutes(call.d)
    /\ pc' = "returned"
    /\ UNCHANGED <<call, rankerVars, callerVars, pickerVars, mainVars>>

NextCall == CallNormalizeSeries \/ CallTimeToMinutes \/ CallDurationToMinutes

\* a helper function is about to be called with one of the given arguments
InitCall(calls) ==
    /\ pc = "call"
    /\ call \in calls
    /\ ret = <<>>
    /\ RankerIdle
    /\ frame = <<>>
    /\ heap = <<>>
    /\ disk = <<>>
    /\ argsort = <<>>
    /\ page = <<>>
    /\ pick = <<>>
    /\ site = <<>>
    /\ run = <<>>

----------------------------------------------------------------------------
(* pick_best_bus statement by statement, for any number of invocations.    *)
(* frame[p] holds the local variables of invocation p: its position pc,    *)
(* the parameters csv_path and weights_arg, the variables default_weights  *)
(* and weights (references to dict objects of the heap, NoneRef for None), *)
(* the table df, the normalized columns, the sorted order, the returned    *)
(* row.                                                                    *)

\* a reference to a dict object is <<kind, number>>; None is one more
NoneRef == <<"None", 0>>

\* the dict object caller number k passes as weights
CallerRef(k) == <<"caller", k>>

\* line 113: the dict object invocation p creates for its default weights
DefaultsRef(p) == <<"default_weights", p>>

\* line 125: the dict object default_weights.copy() creates
MergedRef(p) == <<"merged", p>>

\* dict.update: d after d.update(w)
Update(d, w) ==
    [k \in DOMAIN d \cup DOMAIN w |-> IF k \in DOMAIN w THEN w[k] ELSE d[k]]

\* faulty variant of MergeHeap: the defaults are filled into the caller's
\* mapping, which then serves as the merged weights
MergeHeapIntoCaller(h, dref, wref, mref) ==
    (mref :> Update(h[dref], h[wref])) @@ [h EXCEPT ![wref] = Update(h[dref], h[wref])]

\* lines 125-126: the heap after merged = default_weights.copy() and
\* merged.update(weights)
MergeHeap(h, dref, wref, mref) == (mref :> Update(h[dref], h[wref])) @@ h

\* lines 140-147: the parsed columns
ParseStage(t) ==
    [_price      |-> ParsedInts(t, "Price"),
     _rating     |-> ParsedRatings(t, "Rating"),
     _window     |-> ParsedInts(t, "Window Seats"),
     _seats      |-> ParsedInts(t, "Seats Available"),
     _board_mins |-> ParsedTimes(t, "Boarding Time"),
     _dur_mins   |-> ParsedDurations(t, "Duration"),
     _drop_mins  |-> ParsedTimes(t, "Dropping Time")]

\* lines 149-168: the substitutions
FillStage(d) ==
    [d EXCEPT !._price = FillPrice(@),
              !._rating = FillRating(@),
              !._window = FillCount(@),
              !._seats = FillCount(@),
              !._dur_mins = FillDuration(@),
              !._board_mins = FillBoarding(@)]

\* faulty variant of DropMinsKept: the imputed dropping times are written
\* back into the column
DropMinsFilledInPlace(col) ==
    LET m == SeriesMax(col)
        max_d == IF IsNull(m) THEN Int2F(24 * 60) ELSE m
    IN  IF has_in_window(col) THEN col ELSE FillNa(col, FAdd(max_d, Int2F(120)))

\* lines 175-198 assign nothing to df["_drop_mins"]: the imputation of
\* lines 193-197 works on drop_vals, a copy
DropMinsKept(col) == col

\* lines 170-198: the dropping preference
DropStage(d) ==
    [has_in_window |-> has_in_window(d._drop_mins),
     _drop_pref    |-> DropPref(d._drop_mins)]
    @@ [d EXCEPT !._drop_mins = DropMinsKept(@)]

\* faulty variant of SortOutcomes: ties are broken afresh on every call
SortOutcomesUnrepeatable(memo, score) == SortValues(score)

\* line 221: the sort is an algorithm without state or randomness, so the
\* order it gives to one score column is the same whenever that column is
\* sorted again in the same run; which of the descending orders it is, is
\* left open the first time
SortOutcomes(memo, score) ==
    IF score \in DOMAIN memo THEN {memo[score]} ELSE SortValues(score)

\* lines 113-121
MakeDefaultWeights ==
    \E p \in DOMAIN frame :
        /\ frame[p].pc = "start"
        /\ heap' = (DefaultsRef(p) :> default_weights) @@ heap
        /\ frame' = [frame EXCEPT ![p].default_weights = DefaultsRef(p),
                              ![p].pc = "merge"]
        /\ UNCHANGED <<disk, argsort>>
        /\ UNCHANGED <<pc, rankerVars, call, ret, pickerVars, mainVars>>

\* lines 122-127
MergeWeightsStep ==
    \E p \in DOMAIN frame :
        /\ frame[p].pc = "merge"
        /\ IF frame[p].weights = NoneRef
           THEN /\ frame' = [frame EXCEPT ![p].weights = frame[p].default_weights,
                                      ![p].pc = "read"]
                /\ UNCHANGED heap
           ELSE /\ heap' = MergeHeap(heap, frame[p].default_weights, frame[p].weights,
                                     MergedRef(p))
                /\ frame' = [frame EXCEPT ![p].weights = MergedRef(p),
                                      ![p].pc = "read"]
        /\ UNCHANGED <<disk, argsort>>
        /\ UNCHANGED <<pc, rankerVars, call, ret, pickerVars, mainVars>>

\* lines 129-133
ReadCsvStep ==
    \E p \in DOMAIN frame :
        /\ frame[p].pc = "read"
        /\ \E r \in {ReadCsv(disk[frame[p].csv_path], frame[p].csv_path)} :
              IF r.raised # ""
              THEN frame' = [frame EXCEPT ![p].outcome = r.raised, ![p].pc = "done"]
              ELSE IF r.data = <<>>
              THEN frame' = [frame EXCEPT ![p].outcome = "None", ![p].pc = "done"]
              ELSE frame' = [frame EXCEPT ![p].df = [raw |-> r.data], ![p].pc = "parse"]
        /\ UNCHANGED <<heap, disk, argsort>>
        /\ UNCHANGED <<pc, rankerVars, call, ret, pickerVars, mainVars>>

\* lines 135-147
ParseColumns ==
    \E p \in DOMAIN frame :
        /\ frame[p].pc = "parse"
        /\ \E t \in {EnsureColumns(frame[p].df.raw)} :
              frame' = [frame EXCEPT ![p].df = [raw |-> t] @@ ParseStage(t),
                                ![p].pc = "fill"]
        /\ UNCHANGED <<heap, disk, argsort>>
        /\ UNCHANGED <<pc, rankerVars, call, ret, pickerVars, mainVars>>

\* lines 149-168
FillMissing ==
    \E p \in DOMAIN frame :
        /\ frame[p].pc = "fill"
        /\ frame' = [frame EXCEPT ![p].df = FillStage(@), ![p].pc = "droppref"]
        /\ UNCHANGED <<heap, disk, argsort>>
        /\ UNCHANGED <<pc, rankerVars, call, ret, pickerVars, mainVars>>

\* lines 170-198
DroppingPreference ==
    \E p \in DOMAIN frame :
        /\ frame[p].pc = "droppref"
        /\ frame' = [frame EXCEPT ![p].df = DropStage(@), ![p].pc = "score"]
        /\ UNCHANGED <<heap, disk, argsort>>
        /\ UNCHANGED <<pc, rankerVars, call, ret, pickerVars, mainVars>>

\* lines 200-230
ScoreAndSort ==
    \E p \in DOMAIN frame :
        /\ frame[p].pc = "score"
        /\ \E nm \in {Normalized(frame[p].df)} :
           \E sc \in {Score(heap[frame[p].weights], nm)} :
           \E o \in SortOutcomes(argsort, sc) :
              /\ argsort' = (sc :> o) @@ argsort
              /\ frame' = [frame EXCEPT ![p].df = [_score |-> sc] @@ @,
                                    ![p].norm = nm,
                                    ![p].df_sorted = o,
                                    ![p].best = frame[p].df.raw[o[1]],
                                    ![p].outcome = "row",
                                    ![p].pc = "done"]
        /\ UNCHANGED <<heap, disk>>
        /\ UNCHANGED <<pc, rankerVars, call, ret, pickerVars, mainVars>>

NextCallers ==
    \/ MakeDefaultWeights
    \/ MergeWeightsStep
    \/ ReadCsvStep
    \/ ParseColumns
    \/ FillMissing
    \/ DroppingPreference
    \/ ScoreAndSort

\* an invocation about to start: pick_best_bus(path, wref)
Invocation(path, wref) ==
    [pc |-> "start", csv_path |-> path, weights_arg |-> wref, weights |-> wref,
     default_weights |-> NoneRef, df |-> <<>>, norm |-> <<>>, df_sorted |-> <<>>,
     best |-> <<>>, outcome |-> "pending"]

\* n invocations, each on one of the paths with one of the callers'
\* mappings (or None), the files and the callers' mappings being as given
InitCallers(n, files, mappings) ==
    /\ pc = "callers"
    /\ RankerIdle
    /\ call = <<>>
    /\ ret = <<>>
    /\ disk = files
    /\ heap = mappings
    /\ argsort = <<>>
    /\ page = <<>>
    /\ pick = <<>>
    /\ site = <<>>
    /\ run = <<>>
    /\ frame \in [1..n -> {Invocation(path, wref) :
                            path \in DOMAIN files,
                            wref \in DOMAIN mappings \cup {NoneRef}}]

----------------------------------------------------------------------------
(* Inputs.                                                                 *)

MaxRows == 3

\* a cell text per scored column
Row(price, rating, window, seats, boarding, duration, dropping) ==
    [c \in ScoredColumns |->
        CASE c = "Price" -> price
          [] c = "Rating" -> rating
          [] c = "Window Seats" -> window
          [] c = "Seats Available" -> seats
          [] c = "Boarding Time" -> boarding
          [] c = "Duration" -> duration
          [] c = "Dropping Time" -> dropping]

RECURSIVE TablesOfLen(_, _)
TablesOfLen(R, n) ==
    IF n = 0 THEN {<<>>}
    ELSE {Append(t, r) : t \in TablesOfLen(R, n - 1), r \in R}

\* every table of at most n rows drawn from R
TablesOver(R, n) == UNION {TablesOfLen(R, k) : k \in 0..n}

\* a zero-byte file, and files that hold the given tables
ZeroBytes == [exists |-> TRUE, columns |-> {}, data |-> <<>>]

HeaderOnly(cols) == [exists |-> TRUE, columns |-> cols, data |-> <<>>]

\* price texts
T_0 == <<"0">>
T_100 == <<"1", "0", "0">>
T_200 == <<"2", "0", "0">>
T_Rs300 == <<"R", "s", " ", "3", "0", "0">>
\* rating texts
T_3p5 == <<"3", ".", "5">>
T_4p5 == <<"4", ".", "5">>
\* clock texts
T_0500 == <<"0", "5", ":", "0", "0">>
T_0630 == <<"0", "6", ":", "3", "0">>
T_0700 == <<"0", "7", ":", "0", "0">>
T_0900 == <<"0", "9", ":", "0", "0">>
T_0901 == <<"0", "9", ":", "0", "1">>
T_1100 == <<"1", "1", ":", "0", "0">>
T_1300 == <<"1", "3", ":", "0", "0">>
T_1500 == <<"1", "5", ":", "0", "0">>
T_2359 == <<"2", "3", ":", "5", "9">>
T_0930PM == <<"0", "9", ":", "3", "0", " ", "P", "M">>
\* duration texts
T_10h30m == <<"1", "0", "h", " ", "3", "0", "m">>
T_12h == <<"1", "2", "h">>
\* counts
T_2 == <<"2">>
T_5 == <<"5">>
T_12 == <<"1", "2">>
T_20 == <<"2", "0">>

E == <<>>

\* the weights arguments tried: None, and overrides by known and unknown keys
WeightArgs ==
    {<<>>,
     <<[price |-> Int2F(1)]>>,
     <<[dropping_pref |-> Int2F(0)]>>,
     <<[window |-> Int2F(5), rating |-> Rat(1, 2)]>>,
     <<[window_seats |-> Int2F(5)]>>,
     <<[dropping_time_preference |-> Int2F(0), bogus |-> Int2F(7)]>>}

\* the two weights arguments of the general runs
WeightArgsMain == {<<>>, <<[price |-> Int2F(1), rating |-> Rat(5, 2)]>>}

FullA == Row(T_100, T_3p5, T_2, T_12, T_0930PM, T_12h, T_0630)
FullB == Row(T_Rs300, T_4p5, T_5, T_20, T_2359, T_10h30m, T_1100)

\* offers that differ in price, rating and dropping time, and two offers
\* with every field present
RowsMain ==
    {Row(p, x[1], E, E, E, E, x[2]) :
        p \in {T_100, T_200},
        x \in {<<E, T_0700>>, <<T_4p5, T_0700>>, <<T_4p5, T_1100>>}}
    \cup {FullA, FullB}

SomeFiles == {ZeroBytes, HeaderOnly(ScoredColumns), HeaderOnly({"Price"})}

Init == InitWith(TablesOver(RowsMain, MaxRows), SomeFiles, WeightArgsMain)

Spec == Init /\ [][Next]_vars

\* every weights argument, over a few offers
RowsWeights == {FullA, FullB, Row(T_200, E, T_5, E, E, T_12h, T_0700)}

InitWeights == InitWith(TablesOver(RowsWeights, MaxRows), SomeFiles, WeightArgs)

SpecWeights == InitWeights /\ [][Next]_vars

\* offers that differ in nothing but the dropping time
DropTexts ==
    {E, T_0500, T_0630, T_0700, T_0900, T_1100, T_1300, T_1500, T_2359}

RowsDrop == {Row(E, E, E, E, E, E, d) : d \in DropTexts}

InitDrop ==
    InitWith(TablesOver(RowsDrop, MaxRows), SomeFiles,
             {<<>>, <<[dropping_pref |-> Int2F(0)]>>})

SpecDrop == InitDrop /\ [][Next]_vars

\* offers that differ in nothing but the price
PriceTexts == {E, T_0, T_100, T_200, T_Rs300}

RowsPrice == {Row(p, E, E, E, E, E, E) : p \in PriceTexts}

InitPrice == InitWith(TablesOver(RowsPrice, MaxRows), SomeFiles, {<<>>})

SpecPrice == InitPrice /\ [][Next]_vars

\* offers that differ in nothing but the price, some of their other fields
\* present and some missing, next to an offer that differs in every field;
\* price weights above, at and below zero
RowsAlike ==
    {Row(p, T_4p5, T_2, E, T_0930PM, E, T_0700) :
        p \in {E, T_100, T_200, T_Rs300}}
    \cup {FullB}

WeightArgsPrice ==
    {<<>>,
     <<[price |-> Rat(1, 2), rating |-> FNeg(Int2F(1))]>>,
     <<[price |-> Int2F(0)]>>,
     <<[price |-> FNeg(Int2F(1))]>>}

InitAlike == InitWith(TablesOver(RowsAlike, MaxRows), SomeFiles, WeightArgsPrice)

SpecAlike == InitAlike /\ [][Next]_vars

\* missing data: single offers with any set of fields blank, tables in
\* which offers lack one field or all fields, and files that lack columns
MaxWideRows == 1

Blank(r, cs) == [c \in DOMAIN r |-> IF c \in cs THEN E ELSE r[c]]

RowsAnyMissing == {Blank(FullA, cs) : cs \in SUBSET ScoredColumns}

RowsOneMissing ==
    {FullA, FullB, Blank(FullA, ScoredColumns)}
    \cup {Blank(FullB, {c}) : c \in ScoredColumns}

Restrict(t, cs) == [i \in DOMAIN t |-> [c \in cs |-> t[i][c]]]

FilesLackingColumns ==
    {[exists |-> TRUE, columns |-> cs, data |-> Restrict(t, cs)] :
        cs \in SUBSET ScoredColumns \ {{}},
        t \in TablesOver({FullA, FullB}, MaxRows)}

InitWide ==
    InitWith(TablesOver(RowsAnyMissing, MaxWideRows)
                 \cup TablesOver(RowsOneMissing, MaxRows),
             FilesLackingColumns \cup {ZeroBytes},
             {<<>>})

SpecWide == InitWide /\ [][Next]_vars

\* direct calls of _normalize_series: every column of at most MaxCol cells
\* that are missing (NaN or None) or one of four numbers, both variants
MaxCol == 3

CellValues == {NaN, None, Int2F(0), Int2F(1), Rat(5, 2), Int2F(4)}

NormalizeCalls ==
    {[fn |-> "_normalize_series", s |-> col, invert |-> b] :
        col \in TablesOver(CellValues, MaxCol), b \in BOOLEAN}

\* str(n) and str(n).zfill(2) for a natural number n
DigitChar(d) ==
    CASE d = 0 -> "0" [] d = 1 -> "1" [] d = 2 -> "2" [] d = 3 -> "3"
      [] d = 4 -> "4" [] d = 5 -> "5" [] d = 6 -> "6" [] d = 7 -> "7"
      [] d = 8 -> "8" [] d = 9 -> "9"

RECURSIVE Dec(_)
Dec(n) == IF n < 10 THEN <<DigitChar(n)>> ELSE Dec(n \div 10) \o <<DigitChar(n % 10)>>

Dec2(n) == IF n < 10 THEN <<"0">> \o Dec(n) ELSE Dec(n)

Minutes == 0..59

AmPm == {<<"A", "M">>, <<"P", "M">>}

\* the ways a scraped time spells its marker
MarkerSpellings(ap) ==
    {ap, <<" ">> \o ap, <<" ">> \o LowerText(ap),
     <<" ", Lower(ap[1]), ".", "m", ".">>}

\* direct calls of _time_to_minutes: every HH:MM with the hour up to MaxHour
\* (the first hours that are no hours of a day included), the same with an
\* AM/PM marker, bare hours with a marker, four-digit times, and texts
\* that are no times
MaxHour == 24

ClockTexts ==
    {Dec2(h) \o <<":">> \o Dec2(m) : h \in 0..MaxHour, m \in Minutes}
    \cup {Dec(h) \o <<sep>> \o Dec2(m) :
             h \in 0..MaxHour, m \in {0, 30, 59}, sep \in {":", "-"}}

MarkedClockTexts ==
    {Dec2(h) \o <<":">> \o Dec2(m) \o <<" ">> \o ap :
        h \in 0..MaxHour, m \in Minutes, ap \in AmPm}
    \cup UNION {{Dec(h) \o <<":">> \o Dec2(m) \o x : x \in MarkerSpellings(ap)} :
                  h \in 0..MaxHour, m \in {0, 30}, ap \in AmPm}

BareHourTexts ==
    UNION {{Dec(h) \o x : x \in MarkerSpellings(ap)} \cup {Dec2(h) \o <<" ">> \o ap} :
              h \in 0..MaxHour, ap \in AmPm}

FourDigitTexts == {Dec2(h) \o Dec2(m) : h \in 0..MaxHour, m \in Minutes}

OtherTimeTexts ==
    {<<"2", "5", ":", "9", "9">>,
     <<"9", "9", ":", "9", "9">>,
     <<"9", "9", "9", "9">>,
     <<"2", "4", "6", "0">>,
     <<" ">>,
     <<"a", "b", "c">>,
     <<"6">>,
     <<"6", "3", "0">>,
     <<"0", "6", ":", "3">>,
     <<"0", "0", "6", ":", "3", "0">>,
     <<"0", "6", ":", "3", "0", ":", "0", "0">>,
     <<"0", "6", ":", "3", "0", " ", "X", "M">>,
     <<" ", "0", "6", ":", "3", "0", " ">>,
     <<"0", "6", " ", ":", " ", "3", "0", " ", "P", "M">>,
     <<"6", ".", "3", "0", " ", "P", "M">>,
     <<"1", "8", ".", "3", "0">>,
     <<"1", "3", ":", "0", "0", " ", "P", "M">>,
     <<"0", "0", ":", "0", "0", " ", "A", "M">>,
     <<"0", " ", "A", "M">>,
     <<"1", "3", " ", "P", "M">>,
     <<"6", ":", "3", "0", "p", "m">>,
     <<"0", "6", ":", "3", "0", " ", "P", ".", "M", ".">>}

TimeCalls ==
    {[fn |-> "_time_to_minutes", t |-> x] :
        x \in ClockTexts \cup MarkedClockTexts \cup BareHourTexts
                 \cup FourDigitTexts \cup OtherTimeTexts}

\* direct calls of _duration_to_minutes: hours and bare numbers up to
\* MaxDuration in the h/m, H:MM, H-MM and bare forms, and other texts
MaxDuration == 30

UnitTexts ==
    {Dec(h) \o <<"h", " ">> \o Dec(m) \o <<"m">> : h \in 0..MaxDuration, m \in Minutes}
    \cup {Dec(h) \o <<"h">> : h \in 0..MaxDuration}
    \cup {Dec(m) \o <<"m">> : m \in Minutes}

ColonTexts ==
    {Dec(h) \o <<sep>> \o Dec2(m) :
        h \in 0..MaxDuration, m \in Minutes, sep \in {":", "-"}}

BareTexts == {Dec(n) : n \in 0..MaxDuration}

OtherDurationTexts ==
    {<<"1", "0", " ", "h", "r", "s", " ", "3", "0", " ", "m", "i", "n", "s">>,
     <<"2", "H">>,
     <<"1", "0", "H", " ", "3", "0", "M">>,
     <<" ", "1", "8", " ">>,
     <<"1", "h", "3", "0">>,
     <<"1", "0", "0", ":", "3", "0">>,
     <<"1", "0", ":", "3", "0", " ", "h", "r", "s">>,
     <<"a", "b", "c">>,
     <<" ">>,
     <<"9", "0", " ", "m", "i", "n">>,
     <<"1", " ", "h">>,
     <<"0", "h", " ", "0", "m">>,
     <<"7", " ", "h", "o", "u", "r", "s">>,
     <<"1", "0", ".", "5">>,
     <<"4", "5">>}

DurationCalls ==
    {[fn |-> "_duration_to_minutes", d |-> x] :
        x \in UnitTexts \cup ColonTexts \cup BareTexts \cup OtherDurationTexts}

InitCalls == InitCall(NormalizeCalls \cup TimeCalls \cup DurationCalls)

SpecCalls == InitCalls /\ [][NextCall]_vars

\* invocations of pick_best_bus side by side: MaxCallers of them, each on
\* one of two files (one holds two offers that tie) and with the caller's
\* mapping or None
MaxCallers == 2

TiedOffer == Row(T_100, T_4p5, E, E, E, E, T_0700)

CallersDisk ==
    ("a.csv" :> SaveFile(<<TiedOffer, TiedOffer, FullB>>))
    @@ ("b.csv" :> SaveFile(<<FullA, FullB, Row(T_200, E, T_5, E, E, T_12h, T_0700)>>))

CallerMappings == (CallerRef(1) :> [price |-> Int2F(1), rating |-> Rat(5, 2)])

InitSideBySide == InitCallers(MaxCallers, CallersDisk, CallerMappings)

SpecCallers == InitSideBySide /\ [][NextCallers]_vars

\* one invocation taken statement by statement over offers that carry a
\* name and a booking link next to the scored fields
Linked(r, name, link) == r @@ [c \in {"Bus Name", "Booking Link"} |->
                                 IF c = "Bus Name" THEN name ELSE link]

RowsLinked ==
    {Linked(FullA, <<"V", "R", "L", " ", "A">>, <<"/", "b", "o", "o", "k", "/", "1">>),
     Linked(FullB, <<"V", "R", "L", " ", "B">>, <<"/", "b", "o", "o", "k", "/", "2">>),
     Linked(Row(T_200, E, E, E, E, E, E), <<"V", "R", "L", " ", "C">>, E),
     Linked(Row(T_100, T_4p5, E, T_5, E, T_12h, T_1500), <<"V", "R", "L", " ", "D">>, <<"/", "b", "o", "o", "k", "/", "4">>)}

InitPass ==
    \E t \in TablesOver(RowsLinked, MaxRows) :
        InitCallers(1, (CsvName :> SaveFile(t)), CallerMappings)

SpecPass == InitPass /\ [][NextCallers]_vars

----------------------------------------------------------------------------
(* pick_bootstrap_date, src/datepicker.py lines 277-370, with the helpers  *)
(* it calls.  The browser page is the collaborator.  Of the page the model *)
(* keeps                                                                   *)
(*     opens    whether open_datepicker gets the date widget shown,        *)
(*     field    whether the page has a journey-date input,                 *)
(*     months   whether the month cells of the months view can be clicked, *)
(*     view     which container of the widget is displayed: "days",        *)
(*              "months", "years", or "None" when it is none of the three, *)
(*     month, year   the month and year the widget displays,               *)
(*     written  the texts scripted into the journey-date input,            *)
(*     clicks   the day cells clicked, each with the month and year the    *)
(*              widget displayed when it was clicked.                      *)
(* A day cell is <<day, month, year>>.                                     *)

MONTH_ABBR ==
    <<"Jan", "Feb", "Mar", "Apr", "May", "Jun",
      "Jul", "Aug", "Sep", "Oct", "Nov", "Dec">>

MonthIndexes == DOMAIN MONTH_ABBR

\* sub in txt, for two texts
Contains(txt, sub) ==
    \E i \in 0..(Len(txt) - Len(sub)) : SubSeq(txt, i + 1, i + Len(sub)) = sub

IsLeap(y) == (y % 4 = 0 /\ y % 100 # 0) \/ y % 400 = 0

DaysIn(m, y) ==
    IF m = 2 THEN (IF IsLeap(y) THEN 29 ELSE 28)
    ELSE IF m \in {4, 6, 9, 11} THEN 30 ELSE 31

PrevMonth(m, y) == IF m = 1 THEN <<12, y - 1>> ELSE <<m - 1, y>>

NextMonth(m, y) == IF m = 12 THEN <<1, y + 1>> ELSE <<m + 1, y>>

\* The day cells a days view of month m of year y can hold: the days of
\* the month, before them the last days of the previous month that fill
\* the first week, after them the first days of the next month that fill
\* the six weeks of the grid.
Grid(m, y) ==
    LET pm == PrevMonth(m, y)
        nm == NextMonth(m, y)
    IN  {<<d, m, y>> : d \in 1..DaysIn(m, y)}
          \cup {<<d, pm[1], pm[2]>> :
                    d \in (DaysIn(pm[1], pm[2]) - 6)..DaysIn(pm[1], pm[2])}
          \cup {<<d, nm[1], nm[2]>> : d \in 1..(6 * 7 - DaysIn(m, y))}

\* the years a years view holds when the widget is on year y: the decade
\* of y, the year before it and the year after it
YearCells(y) == ((y \div 10) * 10 - 1)..((y \div 10) * 10 + 10)

\* the text of the widget's header (div.datepicker .datepicker-switch): in
\* the days view the month's name (one element here: it holds no digit), a
\* space and the year; in the months view the year; in the years view the
\* decade
SwitchText(p) ==
    CASE p.view = "days" -> <<MONTH_ABBR[p.month], " ">> \o Dec(p.year)
      [] p.view = "months" -> Dec(p.year)
      [] p.view = "years" ->
            Dec((p.year \div 10) * 10) \o <<"-">> \o Dec((p.year \div 10) * 10 + 9)
      [] OTHER -> <<>>

\* which_view_visible(page)
which_view_visible(p) == p.view

\* click_datepicker_switch(page): the header leads from the days to the
\* months, from the months to the years, and from the years to a view that
\* is none of the three
click_datepicker_switch(p) ==
    [p EXCEPT !.view = CASE p.view = "days" -> "months"
                         [] p.view = "months" -> "years"
                         [] OTHER -> "None"]

ClickYearAttempts == 8

\* click_year(page, year): click the year if the view holds it, otherwise
\* go to the next decade and look again (th.next is part of the widget's
\* template, so th.prev is never reached); a clicked year leads to its
\* months view
RECURSIVE ClickYearFrom(_, _, _)
ClickYearFrom(p, year, left) ==
    IF left = 0 THEN [ok |-> FALSE, page |-> p]
    ELSE IF \E c \in YearCells(p.year) : Dec(c) = Dec(year)
         THEN [ok |-> TRUE, page |-> [p EXCEPT !.year = year, !.view = "months"]]
         ELSE ClickYearFrom([p EXCEPT !.year = @ + 10], year, left - 1)

click_year(p, year) == ClickYearFrom(p, year, ClickYearAttempts)

\* click_month(page, month_idx): click the cell named MONTH_ABBR[month_idx-1]
\* (sequences count from 1 here); a clicked month leads to its days view
click_month(p, month_idx) ==
    LET name == MONTH_ABBR[month_idx]
    IN  IF p.months
        THEN [ok |-> TRUE,
              page |-> [p EXCEPT
                          !.month = CHOOSE i \in MonthIndexes : MONTH_ABBR[i] = name,
                          !.view = "days"]]
        ELSE [ok |-> FALSE, page |-> p]

\* click_day(page, day): the first cell of the days view that is not
\* disabled and whose text is str(int(day)) is clicked.  Which cells are
\* disabled and where the first week begins is the page's, so every cell
\* of the view with that text is a possible outcome, and so is finding none.
click_day(p, day) ==
    {[ok |-> TRUE,
      page |-> [p EXCEPT !.clicks =
                    Append(@, [shown |-> <<p.month, p.year>>, cell |-> c])]] :
        c \in {g \in Grid(p.month, p.year) : Dec(g[1]) = Dec(day)}}
      \cup {[ok |-> FALSE, page |-> p]}

\* raw = f"{str(day).zfill(2)}-{str(month).zfill(2)}-{year}"
RawDate(day, month, year) ==
    Dec2(day) \o <<"-">> \o Dec2(month) \o <<"-">> \o Dec(year)

\* the raw value written into the first journey-date input there is
WriteRaw(p, day, month, year) ==
    IF p.field
    THEN [ok |-> TRUE,
          page |-> [p EXCEPT !.written = Append(@, RawDate(day, month, year))]]
    ELSE [ok |-> FALSE, page |-> p]

Attempts == 12

\* return ok
Return(ok) == [pick EXCEPT !.pc = "done", !.ret = <<ok>>]

\* continue
Continue == [pick EXCEPT !.attempt = @ + 1]

\* lines 282-296: open the widget; when it does not open, write the raw date
OpenDatepicker ==
    /\ pick.pc = "open"
    /\ IF page.opens
       THEN /\ pick' = [pick EXCEPT !.pc = "navigate"]
            /\ UNCHANGED page
       ELSE \E w \in {WriteRaw(page, pick.day, pick.month, pick.year)} :
                /\ page' = w.page
                /\ pick' = Return(w.ok)
    /\ UNCHANGED <<pc, rankerVars, call, ret, callerVars, mainVars>>

\* lines 307-318: one turn of the loop in the days view
DaysView ==
    /\ pick.pc = "navigate"
    /\ pick.attempt < Attempts
    /\ which_view_visible(page) = "days"
    /\ IF Contains(SwitchText(page), Dec(pick.year))
       THEN \E c \in click_day(page, pick.day) :
                /\ page' = c.page
                /\ pick' = Return(c.ok)
       ELSE /\ page' = click_datepicker_switch(page)
            /\ pick' = Continue
    /\ UNCHANGED <<pc, rankerVars, call, ret, callerVars, mainVars>>

\* lines 320-338: one turn of the loop in the months view
MonthsView ==
    /\ pick.pc = "navigate"
    /\ pick.attempt < Attempts
    /\ which_view_visible(page) = "months"
    /\ IF Contains(SwitchText(page), Dec(pick.year))
       THEN \E m \in {click_month(page, pick.month)} :
                IF m.ok
                THEN \E c \in click_day(m.page, pick.day) :
                        /\ page' = c.page
                        /\ pick' = Return(c.ok)
                ELSE /\ page' = click_datepicker_switch(m.page)
                     /\ pick' = Continue
       ELSE /\ page' = click_datepicker_switch(page)
            /\ pick' = Continue
    /\ UNCHANGED <<pc, rankerVars, call, ret, callerVars, mainVars>>

\* lines 340-352: one turn of the loop in the years view
YearsView ==
    /\ pick.pc = "navigate"
    /\ pick.attempt < Attempts
    /\ which_view_visible(page) = "years"
    /\ \E y \in {click_year(page, pick.year)} :
          IF y.ok
          THEN \E m \in {click_month(y.page, pick.month)} :
                  IF m.ok
                  THEN \E c \in click_day(m.page, pick.day) :
                          /\ page' = c.page
                          /\ pick' = Return(c.ok)
                  ELSE /\ page' = m.page
                       /\ pick' = Return(FALSE)
          ELSE /\ page' = y.page
               /\ pick' = Return(FALSE)
    /\ UNCHANGED <<pc, rankerVars, call, ret, callerVars, mainVars>>

\* lines 354-356: one turn of the loop when none of the three views shows
NoView ==
    /\ pick.pc = "navigate"
    /\ pick.attempt < Attempts
    /\ which_view_visible(page) = "None"
    /\ page' = click_datepicker_switch(page)
    /\ pick' = Continue
    /\ UNCHANGED <<pc, rankerVars, call, ret, callerVars, mainVars>>

\* lines 358-370: the loop ran out; write the raw date
LastFallback ==
    /\ pick.pc = "navigate"
    /\ pick.attempt = Attempts
    /\ \E w \in {WriteRaw(page, pick.day, pick.month, pick.year)} :
          /\ page' = w.page
          /\ pick' = Return(w.ok)
    /\ UNCHANGED <<pc, rankerVars, call, ret, callerVars, mainVars>>

NextPick ==
    \/ OpenDatepicker
    \/ DaysView
    \/ MonthsView
    \/ YearsView
    \/ NoView
    \/ LastFallback

\* pick_bootstrap_date(page, day, month, year) is about to run on one of
\* the pages
InitPick(pages, dates) ==
    /\ pc = "picker"
    /\ RankerIdle
    /\ call = <<>>
    /\ ret = <<>>
    /\ frame = <<>>
    /\ heap = <<>>
    /\ disk = <<>>
    /\ argsort = <<>>
    /\ site = <<>>
    /\ run = <<>>
    /\ page \in pages
    /\ \E r \in dates :
          pick = [pc |-> "open", day |-> r[1], month |-> r[2], year |-> r[3],
                  attempt |-> 0, ret |-> <<>>]

\* The journey dates main hands on: calendar dates (main.py:26-27 builds a
\* datetime of them) with four-digit years.
PickDays == {3, 15, 30}

PickMonths == {2, 11, 12}

PickYears == {2026, 2027}

JourneyDates ==
    {r \in PickDays \X PickMonths \X PickYears : r[1] <= DaysIn(r[2], r[3])}

\* the pages: any view, on a month and a year of its own
ShownMonths == {1, 11, 12}

ShownYears == {2016, 2026, 2027, 2036}

Pages ==
    [opens : BOOLEAN, field : BOOLEAN, months : BOOLEAN,
     view : {"days", "months", "years", "None"},
     month : ShownMonths, year : ShownYears,
     written : {<<>>}, clicks : {<<>>}]

InitDate == InitPick(Pages, JourneyDates)

SpecDate == InitDate /\ [][NextPick]_vars

----------------------------------------------------------------------------
(* main from the search click on, src/main.py lines 122-164, and           *)
(* wait_for_search_results_quick, lines 38-86.  The site is the            *)
(* collaborator.  Of it the model keeps                                    *)
(*     buttons   per search selector what the page answers: "absent"       *)
(*               (count() is 0), "raises" (count() or click() raises) or   *)
(*               "clicks" (the click goes through),                        *)
(*     reloads   whether page.reload comes back without raising,           *)
(*     tried     the selectors looked up so far, in the order of the       *)
(*               lookups,                                                  *)
(*     clicked   the selectors whose click went through,                   *)
(*     reloaded  how many times page.reload was called.                    *)
(* What the page shows at one poll is a reading: whether page.url raises,  *)
(* the URL (a sequence of parts, "/availableroutes" being one part), and   *)
(* per result selector "absent" (query_selector gives None), "hidden"      *)
(* (bounding_box gives None), "visible" (bounding_box gives a box),        *)
(* "bbfails" (bounding_box raises) or "qsfails" (query_selector raises).   *)
(* Time is counted in quarters of a second, the length of one sleep.       *)

search_selectors ==
    <<"#searchBtn", "button#searchBtn", "button:has-text('Search')",
      "button:has-text('Search Buses')", "button[type='submit']">>

result_selectors ==
    <<"div#searchResults", "div[id*='searchResults']", ".resultsContainer",
      ".availableroutes", "table", "div.availableroutes">>

\* timeout_seconds=7.0 and timeout_seconds=2.0, in quarters of a second
SearchTimeout == 28

ReloadTimeout == 8

\* for sel in result_selectors, from the i-th on: True is returned for the
\* first element that has a box or whose bounding_box raises
RECURSIVE DomReadyFrom(_, _)
DomReadyFrom(dom, i) ==
    IF i > Len(result_selectors) THEN FALSE
    ELSE IF dom[i] \in {"visible", "bbfails"} THEN TRUE
         ELSE DomReadyFrom(dom, i + 1)

\* the same loop without the test of the box
RECURSIVE DomPresentFrom(_, _)
DomPresentFrom(dom, i) ==
    IF i > Len(result_selectors) THEN FALSE
    ELSE IF dom[i] \in {"visible", "bbfails", "hidden"} THEN TRUE
         ELSE DomPresentFrom(dom, i + 1)

ReadyWhenPresent(reading) ==
    IF reading.url_raises THEN FALSE
    ELSE Contains(reading.url, <<"/availableroutes">>)
            \/ DomPresentFrom(reading.dom, 1)

\* one pass of the body of the polling loop, lines 58-81: whether it
\* returns True.  A raising page.url leaves the try block, so the result
\* selectors are not looked at in that pass.
Ready(reading) ==
    IF reading.url_raises THEN FALSE
    ELSE Contains(reading.url, <<"/availableroutes">>)
            \/ DomReadyFrom(reading.dom, 1)

\* wait_for_search_results_quick(page, timeout_seconds) is entered
EnterWait(timeout) == [timeout |-> timeout, elapsed |-> 0]

\* wait_for_search_results_quick returns ok, having last read `reading`:
\* the call's frame keeps what it returned on, and the run's log of polls
\* gains the call
LeaveWait(ok, reading) ==
    [run EXCEPT
        !.pc = IF run.pc = "wait" THEN "waited" ELSE "rewaited",
        !.results_ready = IF run.pc = "wait" THEN ok ELSE @,
        !.wait = [timeout |-> run.wait.timeout, elapsed |-> run.wait.elapsed,
                  ret |-> ok, reading |-> reading],
        !.waits = Append(@, [timeout |-> run.wait.timeout, ret |-> ok])]

\* What the page can show at one poll.
NoResults ==
    [i \in DOMAIN result_selectors |-> "absent"]

Readings ==
    {\* the search page as it was
     [url_raises |-> FALSE, url |-> <<"https://www.vrlbus.in", "/">>,
      dom |-> NoResults],
     \* containers there but none with a box
     [url_raises |-> FALSE, url |-> <<>>,
      dom |-> [NoResults EXCEPT ![1] = "hidden", ![2] = "qsfails", ![5] = "hidden"]],
     \* page.url raises while a container shows
     [url_raises |-> TRUE, url |-> <<>>,
      dom |-> [NoResults EXCEPT ![1] = "visible"]],
     \* the results page by its URL
     [url_raises |-> FALSE,
      url |-> <<"https://www.vrlbus.in", "/availableroutes", "?q">>,
      dom |-> NoResults],
     \* a table with a box, after a lookup that raised and a hidden container
     [url_raises |-> FALSE, url |-> <<"https://www.vrlbus.in", "/">>,
      dom |-> [NoResults EXCEPT ![1] = "qsfails", ![3] = "hidden", ![5] = "visible"]],
     \* a container whose bounding_box raises, none with a box
     [url_raises |-> FALSE, url |-> <<"https://www.vrlbus.in", "/">>,
      dom |-> [NoResults EXCEPT ![2] = "hidden", ![4] = "bbfails"]]}

\* what the passes of the loop other than the sleep can take
PassTicks == {0, 1}

\* lines 132-139 and 158-159: one turn of the loop over search_selectors
TrySelector ==
    /\ run.pc = "search"
    /\ run.s <= Len(search_selectors)
    /\ IF site.buttons[run.s] = "clicks"
       THEN /\ site' = [site EXCEPT !.tried = Append(@, run.s),
                                    !.clicked = Append(@, run.s)]
            /\ run' = [run EXCEPT !.search_clicked = TRUE,
                                  !.pc = "wait",
                                  !.wait = EnterWait(SearchTimeout)]
       ELSE /\ site' = [site EXCEPT !.tried = Append(@, run.s)]
            /\ run' = [run EXCEPT !.s = @ + 1]
    /\ UNCHANGED <<pc, rankerVars, call, ret, callerVars, pickerVars>>

\* the loop over search_selectors ran out
SelectorsExhausted ==
    /\ run.pc = "search"
    /\ run.s > Len(search_selectors)
    /\ run' = [run EXCEPT !.pc = "summary"]
    /\ UNCHANGED site
    /\ UNCHANGED <<pc, rankerVars, call, ret, callerVars, pickerVars>>

\* lines 57-83: one turn of the polling loop
Poll ==
    /\ run.pc \in {"wait", "rewait"}
    /\ run.wait.elapsed < run.wait.timeout
    /\ \E reading \in Readings :
          IF Ready(reading)
          THEN run' = LeaveWait(TRUE, reading)
          ELSE \E d \in PassTicks :
                  run' = [run EXCEPT !.wait.elapsed = @ + 1 + d]
    /\ UNCHANGED site
    /\ UNCHANGED <<pc, rankerVars, call, ret, callerVars, pickerVars>>

\* lines 85-86: the time is up
TimedOut ==
    /\ run.pc \in {"wait", "rewait"}
    /\ run.wait.elapsed >= run.wait.timeout
    /\ run' = LeaveWait(FALSE, <<>>)
    /\ UNCHANGED site
    /\ UNCHANGED <<pc, rankerVars, call, ret, callerVars, pickerVars>>

\* lines 142-157: after the poll that follows the click
AfterWait ==
    /\ run.pc = "waited"
    /\ IF run.results_ready
       THEN /\ run' = [run EXCEPT !.pc = "summary", !.wait = <<>>]
            /\ UNCHANGED site
       ELSE /\ site' = [site EXCEPT !.reloaded = @ + 1]
            /\ run' = IF site.reloads
                      THEN [run EXCEPT !.pc = "rewait",
                                       !.wait = EnterWait(ReloadTimeout)]
                      ELSE [run EXCEPT !.pc = "summary", !.wait = <<>>]
    /\ UNCHANGED <<pc, rankerVars, call, ret, callerVars, pickerVars>>

\* lines 151-157: after the poll that follows the reload
AfterReload ==
    /\ run.pc = "rewaited"
    /\ run' = [run EXCEPT !.pc = "summary", !.wait = <<>>]
    /\ UNCHANGED site
    /\ UNCHANGED <<pc, rankerVars, call, ret, callerVars, pickerVars>>

\* lines 161-164: the run summary is shown
ShowSummary ==
    /\ run.pc = "summary"
    /\ run' = [run EXCEPT !.pc = "shown",
                          !.summary = [search_clicked |-> run.search_clicked]]
    /\ UNCHANGED site
    /\ UNCHANGED <<pc, rankerVars, call, ret, callerVars, pickerVars>>

NextMain ==
    \/ TrySelector
    \/ SelectorsExhausted
    \/ Poll
    \/ TimedOut
    \/ AfterWait
    \/ AfterReload
    \/ ShowSummary

\* main has filled the form and is about to click Search on one of the sites
InitMain(sites) ==
    /\ pc = "main"
    /\ RankerIdle
    /\ call = <<>>
    /\ ret = <<>>
    /\ frame = <<>>
    /\ heap = <<>>
    /\ disk = <<>>
    /\ argsort = <<>>
    /\ page = <<>>
    /\ pick = <<>>
    /\ site \in sites
    /\ run = [pc |-> "search", s |-> 1, search_clicked |-> FALSE,
              results_ready |-> FALSE, wait |-> <<>>, waits |-> <<>>,
              summary |-> <<>>]

Sites ==
    [buttons : [DOMAIN search_selectors -> {"absent", "raises", "clicks"}],
     reloads : BOOLEAN, tried : {<<>>}, clicked : {<<>>}, reloaded : {0}]

InitSearch == InitMain(Sites)

SpecMain == InitSearch /\ [][NextMain]_vars /\ WF_vars(NextMain)

----------------------------------------------------------------------------
(* Properties.                                                             *)

\* a call of pick_best_bus that ranked a table and returned a row
Ranked == pc = "done" /\ outcome = "row"

NRows == Len(df._score)

Idx == 1..NRows

FEq(x, y) == ~IsNull(x) /\ ~IsNull(y) /\ x = y

\* C1: the returned row has a composite score at least as high as every
\* row of the table, and the ranked table lists every row once in
\* non-increasing order of composite score.
C1_BestIsMaxAndSortedDescending ==
    Ranked =>
        /\ best = df_sorted[1]
        /\ {df_sorted[k] : k \in Idx} = Idx
        /\ Len(df_sorted) = NRows
        /\ \A i \in Idx : FLeq(df._score[i], df._score[best])
        /\ \A k \in 1..(NRows - 1) :
              FLeq(df._score[df_sorted[k + 1]], df._score[df_sorted[k]])

\* three offers with three different scores, the first of the table not best
C1_Witness ==
    /\ Ranked
    /\ NRows = 3
    /\ best # 1
    /\ Cardinality({df._score[i] : i \in Idx}) = 3

\* C2: offers with equal composite scores appear in the ranked table in
\* their original table order (so the first of the tied best is returned).
C2_TiesKeepTableOrder ==
    Ranked =>
        \A k, l \in Idx :
            (k < l /\ FEq(df._score[df_sorted[k]], df._score[df_sorted[l]]))
                => df_sorted[k] < df_sorted[l]

\* C3: an input without rows (no file written, a zero-byte file, a file
\* with only a header) makes the ranker return None and never raise.
C3_EmptyInputGivesNone ==
    (pc = "done" /\ fs.data = <<>>) => outcome = "None"

\* C4: a table with at least one row is always ranked, whatever is missing:
\* the call returns one of the rows, every substituted column and every
\* normalized column is free of missing values, and every composite score
\* is a number.
C4_MissingFieldsNeverFail ==
    (pc = "done" /\ Len(fs.data) >= 1) =>
        /\ outcome = "row"
        /\ NRows = Len(fs.data)
        /\ best \in Idx
        /\ \A i \in Idx :
              /\ ~IsNull(df._price[i]) /\ ~IsNull(df._rating[i])
              /\ ~IsNull(df._window[i]) /\ ~IsNull(df._seats[i])
              /\ ~IsNull(df._dur_mins[i]) /\ ~IsNull(df._board_mins[i])
              /\ ~IsNull(df._drop_pref[i])
              /\ \A c \in DOMAIN norm : ~IsNull(norm[c][i])
              /\ ~IsNull(df._score[i])

\* two or more offers, every scored field of every offer missing
C4_Witness ==
    /\ Ranked
    /\ NRows >= 2
    /\ \A i \in Idx : \A c \in ScoredColumns : df.raw[i][c] = <<>>

\* the weighted sum of the seven normalized scores of row i
Sum7(wp, wr, ww, ws, wd, wb, wx, i) ==
    FAdd(FMul(wp, norm.price_norm[i]),
    FAdd(FMul(wr, norm.rating_norm[i]),
    FAdd(FMul(ww, norm.window_norm[i]),
    FAdd(FMul(ws, norm.seats_norm[i]),
    FAdd(FMul(wd, norm.dur_norm[i]),
    FAdd(FMul(wb, norm.board_norm[i]),
         FMul(wx, norm.drop_pref_norm[i])))))))

\* C5: every composite score is the sum over the seven criteria of the
\* configured weight times the normalized score, the weights being 3.0 for
\* price, 2.0 rating, 1.0 window seats, 0.6 seats available, 1.0 duration,
\* 0.2 boarding time and 1.1 dropping preference when none is overridden;
\* each of the seven normalized columns has a number for every row, so no
\* criterion drops out of the sum.
C5_ScoreIsWeightedSumOfSeven ==
    Ranked =>
        /\ DOMAIN norm = {"price_norm", "rating_norm", "window_norm", "seats_norm",
                          "dur_norm", "board_norm", "drop_pref_norm"}
        /\ \A c \in DOMAIN norm :
              DOMAIN norm[c] = Idx /\ \A i \in Idx : ~IsNull(norm[c][i])
        /\ \A i \in Idx :
              df._score[i] = Sum7(weights["price"], weights["rating"],
                                  weights["window"], weights["seats"],
                                  weights["duration"], weights["boarding"],
                                  weights["dropping_pref"], i)
        /\ weights_arg = <<>> =>
              \A i \in Idx :
                  df._score[i] = Sum7(Rat(3, 1), Rat(2, 1), Rat(1, 1), Rat(6, 10),
                                      Rat(1, 1), Rat(2, 10), Rat(11, 10), i)

\* default weights, an offer without duration, and every criterion
\* telling offers apart
C5_Witness ==
    /\ Ranked
    /\ weights_arg = <<>>
    /\ NRows = 3
    /\ \E i \in Idx : df.raw[i]["Duration"] = <<>>
    /\ \A c \in DOMAIN norm : \E i \in Idx : norm[c][i] # Half

\* the weight the claim expects for a criterion: the override under the
\* given key when there is one, the documented default otherwise
Expected(key, dflt) ==
    IF weights_arg # <<>> /\ key \in DOMAIN weights_arg[1]
    THEN weights_arg[1][key] ELSE dflt

\* C6 as stated: overrides are keyed price, rating, window_seats,
\* seats_available, duration, boarding_time, dropping_time_preference;
\* each replaces its criterion's weight, the others keep their defaults,
\* and any other key changes no composite score.
C6_SpecNamedKeysOverride ==
    Ranked =>
        \A i \in Idx :
            df._score[i] =
                Sum7(Expected("price", Rat(3, 1)),
                     Expected("rating", Rat(2, 1)),
                     Expected("window_seats", Rat(1, 1)),
                     Expected("seats_available", Rat(6, 10)),
                     Expected("duration", Rat(1, 1)),
                     Expected("boarding_time", Rat(2, 10)),
                     Expected("dropping_time_preference", Rat(11, 10)), i)

\* C6 (amended): overrides are keyed price, rating, window, seats, duration,
\* boarding, dropping_pref; each replaces its criterion's weight, the
\* others keep their defaults, and any other key (window_seats,
\* seats_available, boarding_time, dropping_time_preference included)
\* changes no composite score.
C6_CodeNamedKeysOverride ==
    Ranked =>
        \A i \in Idx :
            df._score[i] =
                Sum7(Expected("price", Rat(3, 1)),
                     Expected("rating", Rat(2, 1)),
                     Expected("window", Rat(1, 1)),
                     Expected("seats", Rat(6, 10)),
                     Expected("duration", Rat(1, 1)),
                     Expected("boarding", Rat(2, 10)),
                     Expected("dropping_pref", Rat(11, 10)), i)

\* three offers ranked under an override of window and rating
C6_Witness ==
    /\ Ranked
    /\ NRows = 3
    /\ weights_arg # <<>>
    /\ DOMAIN weights_arg[1] = {"window", "rating"}
    /\ \E i, j \in Idx : norm.window_norm[i] # norm.window_norm[j]

\* the parsed dropping time of row i, in minutes
DropMins(i) == df._drop_mins[i][1]

HasDrop(i) == ~IsNull(df._drop_mins[i])

Inside(i) == HasDrop(i) /\ DropMins(i) >= 390 /\ DropMins(i) <= 540

Dist(i) ==
    IF Abs(DropMins(i) - 390) < Abs(DropMins(i) - 540)
    THEN Abs(DropMins(i) - 390) ELSE Abs(DropMins(i) - 540)

\* the window-mode preference score of row i
WindowScore(i) ==
    IF ~HasDrop(i) THEN Int2F(0)
    ELSE IF Inside(i) THEN Int2F(1)
    ELSE IF Dist(i) >= 720 THEN Int2F(0)
    ELSE Rat(720 - Dist(i), 720)

Parsed == {i \in Idx : HasDrop(i)}

MaxDrop == CHOOSE m \in {DropMins(i) : i \in Parsed} :
               \A i \in Parsed : DropMins(i) <= m

MinDrop == CHOOSE m \in {DropMins(i) : i \in Parsed} :
               \A i \in Parsed : m <= DropMins(i)

\* the dropping time earliest-wins mode works with: missing is latest + 120
Imputed(i) == IF HasDrop(i) THEN DropMins(i) ELSE MaxDrop + 120

Latest == IF Parsed = Idx THEN MaxDrop ELSE MaxDrop + 120

\* the earliest-wins preference score of row i
EarliestScore(i) ==
    IF Parsed = {} \/ Latest = MinDrop THEN Half
    ELSE Rat(Latest - Imputed(i), Latest - MinDrop)

\* C7: window mode is used exactly when some offer drops inside [390, 540];
\* then an offer scores 1 inside the window, 0 without a dropping time and
\* max(0, 1 - d/720) otherwise, d the distance to the nearer boundary; in
\* every other pass the scores are the earliest-wins ones.
C7_WindowModeScores ==
    Ranked =>
        /\ df.has_in_window <=> (\E i \in Idx : Inside(i))
        /\ df.has_in_window =>
              \A i \in Idx : df._drop_pref[i] = WindowScore(i)
        /\ ~df.has_in_window =>
              \A i \in Idx : df._drop_pref[i] = EarliestScore(i)

\* window mode with an offer inside, one outside and one without a time
C7_Witness ==
    /\ Ranked
    /\ df.has_in_window
    /\ \E i, j, k \in Idx :
          /\ Inside(i)
          /\ HasDrop(j) /\ ~Inside(j) /\ FLess(Int2F(0), df._drop_pref[j])
          /\ ~HasDrop(k)

\* the six criteria other than the dropping preference do not tell the
\* offers apart
OthersEqual ==
    \A c \in DOMAIN norm \ {"drop_pref_norm"} :
        \A i, j \in Idx : norm[c][i] = norm[c][j]

EarliestOrder ==
    /\ \A i \in Idx : df._drop_pref[i] = EarliestScore(i)
    /\ \A i, j \in Parsed :
          DropMins(i) < DropMins(j) => FLess(df._drop_pref[j], df._drop_pref[i])
    /\ \A i \in Parsed : \A j \in Idx \ Parsed :
          FLess(df._drop_pref[j], df._drop_pref[i])

C9_RenormalizationKeepsOrder ==
    Ranked =>
        /\ \A i, j \in Idx :
              FLess(df._drop_pref[i], df._drop_pref[j])
                  <=> FLess(norm.drop_pref_norm[i], norm.drop_pref_norm[j])
        /\ df.has_in_window =>
              \A i, j \in Idx :
                  Inside(i) =>
                      /\ FLeq(norm.drop_pref_norm[j], norm.drop_pref_norm[i])
                      /\ ~Inside(j) =>
                            FLess(norm.drop_pref_norm[j], norm.drop_pref_norm[i])

\* window mode with an offer inside, one outside and one without a time,
\* the three re-normalized scores all different
C9_Witness ==
    /\ Ranked
    /\ df.has_in_window
    /\ NRows = 3
    /\ \E i, j, k \in Idx :
          /\ Inside(i) /\ HasDrop(j) /\ ~Inside(j) /\ ~HasDrop(k)
          /\ FLess(norm.drop_pref_norm[k], norm.drop_pref_norm[j])
          /\ FLess(norm.drop_pref_norm[j], norm.drop_pref_norm[i])

\* the prices as parsed, before any substitution
ParsedPrice == ParsedInts(df.raw, "Price")

\* C10: when some price is observed, an offer without a price gets a price
\* strictly above the highest observed one and a normalized price score
\* strictly below that of every offer with an observed price.
C10_MissingPriceStrictlyWorse ==
    Ranked =>
        \A i, j \in Idx :
            (IsNull(ParsedPrice[i]) /\ ~IsNull(ParsedPrice[j])) =>
                /\ FLess(SeriesMax(ParsedPrice), df._price[i])
                /\ FLess(norm.price_norm[i], norm.price_norm[j])

\* the ratings as parsed, before any substitution
ParsedRating == ParsedRatings(df.raw, "Rating")

Observed(col) == {i \in DOMAIN col : ~IsNull(col[i])}

\* C11: an offer without a rating gets the lowest observed rating of the
\* table (0 when no rating is observed), and its normalized rating score is
\* never above that of an offer with an observed rating.
C11_MissingRatingNeverRewarded ==
    Ranked =>
        \A i \in Idx \ Observed(ParsedRating) :
            /\ Observed(ParsedRating) = {} => df._rating[i] = Int2F(0)
            /\ Observed(ParsedRating) # {} =>
                  /\ \E j \in Observed(ParsedRating) : df._rating[i] = ParsedRating[j]
                  /\ \A j \in Observed(ParsedRating) :
                        FLeq(df._rating[i], ParsedRating[j])
            /\ \A j \in Observed(ParsedRating) :
                  FLeq(norm.rating_norm[i], norm.rating_norm[j])

\* an offer without a rating next to offers rated 3.5 and 4.5
C11_Witness ==
    /\ Ranked
    /\ NRows = 3
    /\ \E i, j, k \in Idx :
          /\ IsNull(ParsedRating[i])
          /\ ParsedRating[j] = Rat(7, 2) /\ ParsedRating[k] = Rat(9, 2)
          /\ norm.rating_norm[i] = Int2F(0)
          /\ norm.rating_norm[j] = Int2F(0)
          /\ norm.rating_norm[k] = Int2F(1)

\* the criteria for which a smaller value is better, and those for which a
\* larger value is better: the column handed to the normalization (after
\* the substitution of missing values) and the normalized column
SmallerIsBetter ==
    {<<"_price", "price_norm">>, <<"_dur_mins", "dur_norm">>,
     <<"_board_mins", "board_norm">>}

LargerIsBetter ==
    {<<"_rating", "rating_norm">>, <<"_window", "window_norm">>,
     <<"_seats", "seats_norm">>}

NonDegenerate(col) == \E i, j \in DOMAIN col : col[i] # col[j]

IsSmallest(col, i) == \A j \in DOMAIN col : FLeq(col[i], col[j])

IsLargest(col, i) == \A j \in DOMAIN col : FLeq(col[j], col[i])

\* C13: every normalized score lies in [0, 1]; in a column whose values
\* (as handed to the normalization) are not all equal, the smallest price,
\* duration and boarding time score 1 and the largest 0, the largest
\* rating, window-seat count and seat count score 1 and the smallest 0, and
\* a better value never scores lower than a worse one.
C13_NormalizedScoresInUnitRangeLargerBetter ==
    Ranked =>
        /\ \A c \in DOMAIN norm : \A i \in Idx :
              FLeq(Int2F(0), norm[c][i]) /\ FLeq(norm[c][i], Int2F(1))
        /\ \A x \in SmallerIsBetter :
              NonDegenerate(df[x[1]]) =>
                  \A i \in Idx :
                      /\ IsSmallest(df[x[1]], i) => norm[x[2]][i] = Int2F(1)
                      /\ IsLargest(df[x[1]], i) => norm[x[2]][i] = Int2F(0)
                      /\ \A j \in Idx :
                            FLess(df[x[1]][i], df[x[1]][j]) =>
                                FLess(norm[x[2]][j], norm[x[2]][i])
        /\ \A x \in LargerIsBetter :
              NonDegenerate(df[x[1]]) =>
                  \A i \in Idx :
                      /\ IsLargest(df[x[1]], i) => norm[x[2]][i] = Int2F(1)
                      /\ IsSmallest(df[x[1]], i) => norm[x[2]][i] = Int2F(0)
                      /\ \A j \in Idx :
                            FLess(df[x[1]][i], df[x[1]][j]) =>
                                FLess(norm[x[2]][i], norm[x[2]][j])

\* three offers that differ in all six criteria, one of them with a price
\* strictly between the other two
C13_Witness ==
    /\ Ranked
    /\ NRows = 3
    /\ \A x \in SmallerIsBetter \cup LargerIsBetter : NonDegenerate(df[x[1]])
    /\ \E i \in Idx :
          FLess(Int2F(0), norm.price_norm[i]) /\ FLess(norm.price_norm[i], Int2F(1))

\* a direct call of the named helper function has returned
Returned(fn) == pc = "returned" /\ call.fn = fn

\* C12: normalizing a column that has no values, or whose values are all
\* equal (a single value included), gives 0.5 for every row, inverted or
\* not, and the division is never evaluated with a divisor of zero.
C12_DegenerateColumnIsNeutral ==
    Returned("_normalize_series") =>
        /\ (\A i, j \in Observed(call.s) : call.s[i] = call.s[j]) =>
              /\ DOMAIN ret = DOMAIN call.s
              /\ \A i \in DOMAIN ret : ret[i] = Half
        /\ \A d \in NormalizeDivisors(call.s) : ~IsNull(d) /\ d[1] # 0

\* an inverted call on three cells: one missing, two holding the same number
C12_Witness ==
    /\ Returned("_normalize_series")
    /\ call.invert
    /\ Len(call.s) = 3
    /\ Cardinality(Observed(call.s)) = 2
    /\ \A i, j \in Observed(call.s) : call.s[i] = call.s[j]
    /\ ret = <<Half, Half, Half>>

\* C14: whatever _time_to_minutes returns for a text is no-value or a
\* minute of the day, 0 to 1439.
C14_ClockValueIsMinuteOfDay ==
    Returned("_time_to_minutes") =>
        \/ IsNone(ret)
        \/ ret[2] = 1 /\ ret[1] >= 0 /\ ret[1] <= 1439

\* the text s begins with the text p
StartsWith(s, p) == Len(p) <= Len(s) /\ SubSeq(s, 1, Len(p)) = p

\* the hour the 12-hour rules give: PM adds 12 unless the hour is 12, AM
\* turns 12 into 0
Hour12(h, ap) ==
    IF ap = <<"P", "M">> THEN (IF h # 12 THEN h + 12 ELSE h)
    ELSE (IF h = 12 THEN 0 ELSE h)

\* C15: HH:MM with HH in 0..23 and MM in 0..59 gives HH*60+MM; with an AM
\* or PM marker the hour follows the 12-hour rules (06:30 PM gives 1110,
\* 06:30 AM 390, 12:00 AM 0, 12:00 PM 720); a bare hour with a marker and a
\* four-digit HHMM are read by the second and third pattern.
C15_ClockTextsRoundTrip ==
    Returned("_time_to_minutes") =>
        /\ \A h \in 0..23 :
              StartsWith(call.t, Dec2(h)) =>
                  \A m \in Minutes :
                      /\ call.t = Dec2(h) \o <<":">> \o Dec2(m) =>
                            ret = Int2F(h * 60 + m)
                      /\ call.t = Dec2(h) \o Dec2(m) =>
                            ret = Int2F(h * 60 + m)
        /\ \A h \in 0..MaxHour, ap \in AmPm :
              StartsWith(call.t, Dec2(h)) =>
                  \A m \in Minutes :
                      call.t = Dec2(h) \o <<":">> \o Dec2(m) \o <<" ">> \o ap =>
                          ret = Int2F(Hour12(h, ap) * 60 + m)
        /\ \A h \in 0..MaxHour, ap \in AmPm :
              call.t \in {Dec(h) \o ap, Dec(h) \o <<" ">> \o ap,
                          Dec2(h) \o <<" ">> \o ap} =>
                  ret = Int2F(Hour12(h, ap) * 60)
        /\ call.t = <<"0", "6", ":", "3", "0", " ", "P", "M">> => ret = Int2F(1110)
        /\ call.t = <<"0", "6", ":", "3", "0", " ", "A", "M">> => ret = Int2F(390)
        /\ call.t = <<"1", "2", ":", "0", "0", " ", "A", "M">> => ret = Int2F(0)
        /\ call.t = <<"1", "2", ":", "0", "0", " ", "P", "M">> => ret = Int2F(720)

\* 12:00 PM has been parsed
C15_Witness ==
    /\ Returned("_time_to_minutes")
    /\ call.t = <<"1", "2", ":", "0", "0", " ", "P", "M">>
    /\ ret = Int2F(720)

\* C16: <h>h <m>m gives h*60+m, <h>h gives h*60, <m>m gives m, H:MM and
\* H-MM give H*60+MM, and a bare number N gives N*60 up to 24 and N above
\* ("10h 30m" and "10:30" give 630, "45m" 45, "2h" 120, "18" 1080); a text
\* a later form would read differently is read by the earlier form.
C16_DurationForms ==
    Returned("_duration_to_minutes") =>
        /\ \A h \in 0..MaxDuration :
              StartsWith(call.d, Dec(h)) =>
                  /\ call.d = Dec(h) \o <<"h">> => ret = Int2F(h * 60)
                  /\ \A m \in Minutes :
                        /\ call.d = Dec(h) \o <<"h", " ">> \o Dec(m) \o <<"m">> =>
                              ret = Int2F(h * 60 + m)
                        /\ call.d \in {Dec(h) \o <<":">> \o Dec2(m),
                                        Dec(h) \o <<"-">> \o Dec2(m)} =>
                              ret = Int2F(h * 60 + m)
        /\ \A m \in Minutes :
              call.d = Dec(m) \o <<"m">> => ret = Int2F(m)
        /\ \A n \in 0..MaxDuration :
              call.d = Dec(n) => ret = Int2F(IF n <= 24 THEN n * 60 ELSE n)
        /\ call.d = <<"1", "0", "h", " ", "3", "0", "m">> => ret = Int2F(630)
        /\ call.d = <<"1", "0", ":", "3", "0">> => ret = Int2F(630)
        /\ call.d = <<"4", "5", "m">> => ret = Int2F(45)
        /\ call.d = <<"2", "h">> => ret = Int2F(120)
        /\ call.d = <<"1", "8">> => ret = Int2F(1080)

\* the bare number 25 has been read as 25 minutes
C16_Witness ==
    /\ Returned("_duration_to_minutes")
    /\ call.d = <<"2", "5">>
    /\ ret = Int2F(25)

\* invocation p has returned
Done(p) == frame[p].pc = "done"

\* the weights argument of invocation p as the caller holds it: <<>> for
\* None, <<d>> for the mapping d
ArgOf(ref) == IF ref = NoneRef THEN <<>> ELSE <<CallerMappings[ref]>>

Loaded(p) == ReadCsv(disk[frame[p].csv_path], frame[p].csv_path).data

\* C18: from the load to the return every row keeps the value of every
\* source column it was loaded with, the returned row carries the source
\* values of the row ranked first (its booking link among them), and the
\* column of parsed dropping times keeps its parse-time values: a missing
\* dropping time stays missing in it.
C18_SourceFieldsAndDropTimesKept ==
    \A p \in DOMAIN frame :
        frame[p].df # <<>> =>
            /\ Len(frame[p].df.raw) = Len(Loaded(p))
            /\ \A i \in DOMAIN Loaded(p) : \A c \in DOMAIN Loaded(p)[i] :
                  frame[p].df.raw[i][c] = Loaded(p)[i][c]
            /\ "_drop_mins" \in DOMAIN frame[p].df =>
                  frame[p].df._drop_mins
                      = ParsedTimes(EnsureColumns(Loaded(p)), "Dropping Time")
            /\ Done(p) =>
                  \A c \in DOMAIN Loaded(p)[1] :
                      frame[p].best[c] = Loaded(p)[frame[p].df_sorted[1]][c]

\* a pass in earliest-wins mode over two or more offers, one of them
\* without a dropping time, that returned an offer with a booking link
C18_Witness ==
    \E p \in DOMAIN frame :
        /\ Done(p)
        /\ frame[p].outcome = "row"
        /\ Len(frame[p].df.raw) >= 2
        /\ ~frame[p].df.has_in_window
        /\ \E i \in DOMAIN frame[p].df._drop_mins : IsNull(frame[p].df._drop_mins[i])
        /\ \E i \in DOMAIN frame[p].df._drop_mins : ~IsNull(frame[p].df._drop_mins[i])
        /\ frame[p].best["Booking Link"] # <<>>
        /\ frame[p].df_sorted[1] # 1

\* what pick_best_bus(path, warg) gives when nothing else runs: how it
\* ends and, when it ranks, the composite scores
RunAlone(file, path, warg) ==
    LET r == ReadCsv(file, path)
    IN  IF r.raised # "" THEN [outcome |-> r.raised, score |-> <<>>]
        ELSE IF r.data = <<>> THEN [outcome |-> "None", score |-> <<>>]
        ELSE [outcome |-> "row",
              score |-> Score(MergeWeights(warg),
                              Normalized(Derived(EnsureColumns(r.data))))]

Alone ==
    [path \in DOMAIN CallersDisk, ref \in DOMAIN CallerMappings \cup {NoneRef} |->
        RunAlone(CallersDisk[path], path, ArgOf(ref))]

\* C19: whatever the interleaving of the invocations, no caller's mapping
\* is ever modified, the default weights of an invocation are the
\* documented ones whatever the others were given, and an invocation that
\* has returned returned what it returns when run alone: the same outcome,
\* the same scores, its rows in the order the sort gives those scores.
C19_InvocationsShareNoState ==
    /\ disk = CallersDisk
    /\ \A k \in DOMAIN CallerMappings : heap[k] = CallerMappings[k]
    /\ \A p \in DOMAIN frame :
          /\ frame[p].pc # "start" => heap[DefaultsRef(p)] = default_weights
          /\ Done(p) =>
                \E a \in {Alone[frame[p].csv_path, frame[p].weights_arg]} :
                    /\ frame[p].outcome = a.outcome
                    /\ a.outcome = "row" =>
                          /\ frame[p].df._score = a.score
                          /\ frame[p].df_sorted = argsort[a.score]
                          /\ frame[p].df_sorted \in SortValues(a.score)
                          /\ frame[p].best = frame[p].df.raw[frame[p].df_sorted[1]]

\* two invocations have returned, one given the caller's mapping and one
\* given None, on different files
C19_Witness ==
    \E p, q \in DOMAIN frame :
        /\ Done(p) /\ Done(q)
        /\ frame[p].csv_path # frame[q].csv_path
        /\ frame[p].weights_arg = CallerRef(1)
        /\ frame[q].weights_arg = NoneRef
        /\ frame[p].outcome = "row" /\ frame[q].outcome = "row"
        /\ heap[frame[p].weights] # heap[frame[q].weights]

\* C20: whenever pick_bootstrap_date returns True, either the raw date
\* DD-MM-YYYY was written into a journey-date input, or the one day cell it
\* clicked was clicked while the widget showed the requested month of the
\* requested year and is the requested day of that month, never the same
\* day number of another month.
PickReturned(ok) == pc = "picker" /\ pick.pc = "done" /\ pick.ret = <<ok>>

C20_SuccessMeansRequestedDate ==
    PickReturned(TRUE) =>
        \/ page.written = <<RawDate(pick.day, pick.month, pick.year)>>
        \/ /\ Len(page.clicks) = 1
           /\ page.clicks[1].shown = <<pick.month, pick.year>>
           /\ page.clicks[1].cell = <<pick.day, pick.month, pick.year>>

\* the selectors were looked up in the order of search_selectors, none
\* twice and none skipped
TriedInOrder == site.tried = [i \in 1..Len(site.tried) |-> i]

\* at most one click went through: that of the first selector whose click
\* goes through, and no selector was looked up after it
OneClickThenStop ==
    /\ Len(site.clicked) <= 1
    /\ site.clicked # <<>> =>
          /\ site.buttons[site.clicked[1]] = "clicks"
          /\ \A j \in 1..(site.clicked[1] - 1) : site.buttons[j] # "clicks"
          /\ Len(site.tried) = site.clicked[1]

\* at most one reload, and only after a click that went through and a
\* 7-second poll that returned False
ReloadOnceAfterMiss ==
    /\ site.reloaded <= 1
    /\ site.reloaded = 1 =>
          /\ site.clicked # <<>>
          /\ run.waits # <<>>
          /\ run.waits[1] = [timeout |-> SearchTimeout, ret |-> FALSE]

\* the summary shows search_clicked True exactly when a click went through
SummaryTellsClick ==
    run.pc = "shown" => (run.summary.search_clicked <=> site.clicked # <<>>)

SearchRun ==
    TriedInOrder /\ OneClickThenStop /\ ReloadOnceAfterMiss /\ SummaryTellsClick

WaitReturned == pc = "main" /\ run.pc \in {"waited", "rewaited"}

UrlDetected(r) == ~r.url_raises /\ Contains(r.url, <<"/availableroutes">>)

VisibleDetected(r) == \E i \in DOMAIN r.dom : r.dom[i] = "visible"

BoxFailed(r) == \E i \in DOMAIN r.dom : r.dom[i] = "bbfails"

\* True only on the URL or a visible container seen before the timeout,
\* False only once the time is up
VerdictAsStated ==
    WaitReturned =>
        IF run.wait.ret
        THEN /\ run.wait.elapsed < run.wait.timeout
             /\ UrlDetected(run.wait.reading) \/ VisibleDetected(run.wait.reading)
        ELSE run.wait.elapsed >= run.wait.timeout

\* the same, a container whose box could not be computed counting as seen
VerdictWithBoxFailure ==
    WaitReturned =>
        IF run.wait.ret
        THEN /\ run.wait.elapsed < run.wait.timeout
             /\ \/ UrlDetected(run.wait.reading)
                \/ VisibleDetected(run.wait.reading)
                \/ BoxFailed(run.wait.reading)
        ELSE run.wait.elapsed >= run.wait.timeout

\* every call of wait_for_search_results_quick returns
WaitTerminates ==
    (pc = "main" /\ run.pc \in {"wait", "rewait"}) ~> WaitReturned

\* C21 as stated: in one run of main the search selectors are tried in
\* order and the loop stops after the first click that goes through, so at
\* most one click goes through; a reload is attempted at most once and only
\* after a click whose results the 7-second poll did not detect; the
\* summary's search_clicked is True exactly when a click went through; and
\* wait_for_search_results_quick always returns, True only if the URL or a
\* visible result container was detected before the timeout, False
\* otherwise.
C21_SearchRunAndPollVerdict ==
    [](SearchRun /\ VerdictAsStated) /\ WaitTerminates

\* C21 amended: the same, except that wait_for_search_results_quick also
\* returns True for a result container whose bounding box could not be
\* computed (bounding_box raised), visible or not.
C21_SearchRunAndPollVerdictWithBoxFailure ==
    [](SearchRun /\ VerdictWithBoxFailure) /\ WaitTerminates

\* the first selector raised, a later click went through, the 7-second poll
\* timed out, the page was reloaded, and the poll after the reload returned
\* True on a container whose bounding_box raised, no container being visible
C21_Witness ==
    /\ pc = "main"
    /\ run.pc = "rewaited"
    /\ site.buttons[1] = "raises"
    /\ site.clicked # <<>>
    /\ site.clicked[1] > 1
    /\ site.reloaded = 1
    /\ run.wait.ret
    /\ BoxFailed(run.wait.reading)
    /\ ~VisibleDetected(run.wait.reading)
    /\ ~UrlDetected(run.wait.reading)

\* the values the parsers gave, before any substitution, per criterion
ParsedFields ==
    [price    |-> ParsedPrice,
     rating   |-> ParsedRating,
     window   |-> ParsedInts(df.raw, "Window Seats"),
     seats    |-> ParsedInts(df.raw, "Seats Available"),
     duration |-> ParsedDurations(df.raw, "Duration"),
     boarding |-> ParsedTimes(df.raw, "Boarding Time"),
     dropping |-> ParsedTimes(df.raw, "Dropping Time")]

\* offers i and j have the same value, or both none, in every criterion
\* other than the price
AlikeButPrice(i, j) ==
    \A c \in DOMAIN ParsedFields \ {"price"} :
        \/ IsNull(ParsedFields[c][i]) /\ IsNull(ParsedFields[c][j])
        \/ FEq(ParsedFields[c][i], ParsedFields[c][j])

\* offer i has a price and offer j a strictly higher one
Cheaper(i, j) ==
    /\ ~IsNull(ParsedPrice[i])
    /\ ~IsNull(ParsedPrice[j])
    /\ FLess(ParsedPrice[i], ParsedPrice[j])

\* the place of offer i in the ranked table
Place(i) == CHOOSE k \in Idx : df_sorted[k] = i

PriceWeightPositive == FLess(Int2F(0), Get(weights, "price", Int2F(1)))

====
